---------------------------- MODULE Spec2Model ----------------------------
(***************************************************************************)
(* A model of hum-to-notes: the pitch stabilizer (PitchDetector), the note *)
(* segmenter (NoteQuantizer), the tempo estimator and grid quantizer       *)
(* (TempoQuantizer), the notation encoder (AbcGenerator) and the store     *)
(* that drives them (AudioState).                                          *)
(*                                                                         *)
(* Units.  Times are integers in centiseconds (0.18 s = 18, 0.01 s = 1);   *)
(* every time constant of the program is a whole number of centiseconds.   *)
(* Frequencies are integers in centi-Hz (440 Hz = 44000).  Clarity is in   *)
(* thousandths (0.01 = 10).  A value that may be null is the empty tuple   *)
(* (None) or a one-element tuple (Some(v)).                                *)
(***************************************************************************)
EXTENDS Integers, Sequences, FiniteSets, TLC

None == << >>
Some(v) == << v >>
Val(o) == o[1]

Abs(x) == IF x < 0 THEN 0 - x ELSE x
Max(a, b) == IF a >= b THEN a ELSE b
Min(a, b) == IF a <= b THEN a ELSE b

(***************************************************************************)
(* Exact fractions, for the times the grid quantizer and the tempo         *)
(* estimator compute (a grid unit is 24000 / (bpm * subdivision)           *)
(* centiseconds, seldom a whole number).  A fraction is [n, d] in lowest   *)
(* terms with d > 0, so equal values are equal records.                    *)
(***************************************************************************)
RECURSIVE GCD(_, _)
GCD(a, b) == IF b = 0 THEN a ELSE GCD(b, a % b)

Frac(n, d) == LET g == GCD(Abs(n), d) IN [n |-> n \div g, d |-> d \div g]
FInt(k) == [n |-> k, d |-> 1]
FAdd(a, b) == Frac(a.n * b.d + b.n * a.d, a.d * b.d)
FSub(a, b) == Frac(a.n * b.d - b.n * a.d, a.d * b.d)
FMul(a, b) == Frac(a.n * b.n, a.d * b.d)
\* a / b for b > 0
FDiv(a, b) == Frac(a.n * b.d, a.d * b.n)
FLess(a, b) == a.n * b.d < b.n * a.d
FLeq(a, b) == a.n * b.d <= b.n * a.d
FMax(a, b) == IF FLeq(b, a) THEN a ELSE b
FAbs(a) == [n |-> Abs(a.n), d |-> a.d]
\* Math.floor and Math.round (which rounds halves up)
FFloor(a) == a.n \div a.d
FRoundPastNext(a) == a.n \div a.d + 1
FRound(a) == (2 * a.n + a.d) \div (2 * a.d)

(***************************************************************************)
(* Pitch arithmetic shared by NoteQuantizer and PitchDetector.             *)
(***************************************************************************)

\* Lower edge, in centi-Hz, of the band of frequencies that
\* round(12 * log2(f / 440) + 69) maps to MIDI number m, for m in 39..85:
\* round(44000 * 2^((m - 69.5) / 12)).  Math.round rounds halves up, so the
\* lower edge belongs to m.
MidiLowerEdge ==
    << 7557, 8006, 8482, 8987, 9521, 10087, 10687, 11322, 11996, 12709,
       13465, 14265, 15113, 16012, 16964, 17973, 19042, 20174, 21374, 22645,
       23991, 25418, 26929, 28530, 30227, 32024, 33929, 35946, 38084, 40348,
       42747, 45289, 47982, 50836, 53858, 57061, 60454, 64049, 67857, 71892,
       76167, 80696, 85495, 90579, 95965, 101671, 107717 >>

LowestMidi == 39

FrequencyToMidi(f) ==
    CHOOSE m \in LowestMidi .. (LowestMidi + Len(MidiLowerEdge) - 2) :
        /\ MidiLowerEdge[m - LowestMidi + 1] <= f
        /\ f < MidiLowerEdge[m - LowestMidi + 2]

\* FrequencyToMidi on the frequencies the model feeds in, evaluated once;
\* any other frequency (a mean, a median) is looked up in the table of edges.
InputFrequencies == { 44000, 44500, 46600, 46616, 49388, 49400 }
InputMidi == [f \in InputFrequencies |-> FrequencyToMidi(f)]
MidiOf(f) == IF f \in InputFrequencies THEN InputMidi[f] ELSE FrequencyToMidi(f)

\* Equal-tempered frequency of MIDI number m in centi-Hz, for m in 39..84:
\* round(44000 * 2^((m - 69) / 12)).
MidiFrequencyTable ==
    << 7778, 8241, 8731, 9250, 9800, 10383, 11000, 11654, 12347, 13081,
       13859, 14683, 15556, 16481, 17461, 18500, 19600, 20765, 22000, 23308,
       24694, 26163, 27718, 29366, 31113, 32963, 34923, 36999, 39200, 41530,
       44000, 46616, 49388, 52325, 55437, 58733, 62225, 65926, 69846, 73999,
       78399, 83061, 88000, 93233, 98777, 104650 >>

MidiToFrequency(midi) == MidiFrequencyTable[midi - LowestMidi + 1]

NOTE_NAMES == << "C", "C#", "D", "D#", "E", "F", "F#", "G", "G#", "A", "A#", "B" >>

\* NoteQuantizer.frequencyToNoteInfo, without the cents field (unused by the
\* segmenter).
FrequencyToNoteInfo(f) ==
    LET midiNumber == FrequencyToMidi(f)
        noteIndex == ((midiNumber % 12) + 12) % 12
        octave == (midiNumber \div 12) - 1
    IN  [note |-> NOTE_NAMES[noteIndex + 1], octave |-> octave,
         midiNumber |-> midiNumber]

(***************************************************************************)
(* State.                                                                  *)
(***************************************************************************)
VARIABLES
    \* NoteQuantizer
    currentNoteStart, currentMidi, frequencySum, frequencyCount,
    pendingMidi, pendingCount, silenceCount,
    \* the last call made on the segmenter, its argument and its result
    \* (silentRun: the silent processFrame calls in a row; silenceStart: the
    \* timestamp of the first of them when they fall on an active note,
    \* recorded where the calls come with a running clock; runMidi, runCount:
    \* the MIDI number of the processFrame calls in a row that mapped to one
    \* number away from the active note, and how many they are)
    \* openedAt: the timestamp of the processFrame call that made the active
    \* MIDI number what it is
    segOp, segIn, segRet, silentRun, silenceStart, runMidi, runCount,
    openedAt,
    \* emitted: the NoteEvents returned so far to a caller that keeps them
    emitted,
    \* PitchDetector
    pitchHistory, smoothedFrequency, currentMidiNote,
    \* the last call made on the stabilizer, its clarity, the lock before
    \* it, and the number of times the validated estimate has differed from
    \* the one before it
    detOp, detClarity, detPrevMidi, detChanges,
    \* the note array a caller holds and passes to the functions below
    notes,
    \* TempoQuantizer.settings
    bpm, subdivision,
    \* AbcGenerator.bpm
    abcBpm,
    \* the last call made on the quantizer or the encoder and its result
    qOp, qOut, qAgain, qTempo, abcOut,
    \* AudioState's published fields (currentPitch: TRUE when not null)
    status, currentPitch, detectedNotes, rawNotes, abcNotation, error,
    detectedBpm, quantizeEnabled, isPlaying,
    \* AudioState's private fields: recorder is an AudioRecorder's id or None,
    \* pitchDetector and noteQuantizer are TRUE when not null,
    \* animationFrameId is "null", "pending" (the id of a scheduled callback)
    \* or "fired" (the id of a callback that has run)
    recorder, pitchDetector, noteQuantizer, animationFrameId,
    \* the AudioRecorder objects, the number of scheduled processAudio
    \* callbacks, and the end of the last note the segmenter of the recording
    \* in progress has returned
    recorders, scheduledFrames, lastNoteEnd,
    \* what has happened to the NoteQuantizer object the store holds: "null"
    \* (there is none), "live" (constructed, not flushed), "flushed",
    \* "flushedAgain", "usedAfterFlush"
    segmenter,
    \* what the encoder's two duration conversions and the playback estimate
    \* return for the notes
    unitsOut

segVars == << currentNoteStart, currentMidi, frequencySum, frequencyCount,
              pendingMidi, pendingCount, silenceCount,
              segOp, segIn, segRet, silentRun, silenceStart,
              runMidi, runCount, openedAt, emitted >>

detVars == << pitchHistory, smoothedFrequency, currentMidiNote,
              detOp, detClarity, detPrevMidi, detChanges >>

quantVars == << notes, bpm, subdivision, abcBpm,
                qOp, qOut, qAgain, qTempo, abcOut, unitsOut >>

storeVars == << status, currentPitch, detectedNotes, rawNotes, abcNotation,
                error, detectedBpm, quantizeEnabled, isPlaying, recorder,
                pitchDetector, noteQuantizer, animationFrameId, recorders,
                scheduledFrames, lastNoteEnd, segmenter >>

vars == << segVars, detVars, quantVars, storeVars >>

(***************************************************************************)
(* NoteQuantizer (the note segmenter).                                     *)
(***************************************************************************)
MinStableDuration == 18
MinClarity == 10
\* distance <= 1: the semitones an observation may lie from the active note
\* and still belong to it
SemitoneToleranceNone == 1 - 1
SemitoneTolerance == 1
ConfirmationFramesEarly == 5 - 1
ConfirmationFrames == 5
\* A segmenter that waits for one more silent frame before ending a note.
SilenceThresholdLate == 8 + 1
SilenceThreshold == 8

\* Bounds of the segmenter's inputs.
TimeStep == 6
MaxTick == 4
MaxSilence == 9
MaxFrequencyCount == 3

SegTimes == { k * TimeStep : k \in 0 .. MaxTick }
\* 440 Hz and 445 Hz map to A4 (69), 466 Hz to A#4 (70), 494 Hz to B4 (71).
SegFrequencies == { 44000, 44500, 46600, 49400 }
SegClarities == { 5, 10 }

\* finishCurrentNote without its minimum-duration test.
FinishCurrentNoteNoMinimum(start, midi, sum, count, endTime) ==
    IF start = None \/ midi = None THEN None
    ELSE LET avgFrequency == IF count > 0 THEN sum \div count
                             ELSE MidiToFrequency(Val(midi))
             noteInfo == FrequencyToNoteInfo(avgFrequency)
         IN  Some([note |-> noteInfo.note, octave |-> noteInfo.octave,
                   midiNumber |-> noteInfo.midiNumber,
                   startTime |-> Val(start),
                   duration |-> endTime - Val(start),
                   frequency |-> avgFrequency])

\* finishCurrentNote counting one centisecond more than the note lasted.
FinishCurrentNoteOverrun(start, midi, sum, count, endTime) ==
    LET note == FinishCurrentNoteNoMinimum(start, midi, sum, count, endTime)
    IN  IF note = None \/ Val(note).duration < MinStableDuration THEN None
        ELSE Some([Val(note) EXCEPT !.duration = @ + 1])

\* finishCurrentNote reporting the equal-tempered frequency of the note.
FinishCurrentNoteEqualTempered(start, midi, sum, count, endTime) ==
    LET note == FinishCurrentNoteNoMinimum(start, midi, 0, 0, endTime)
    IN  IF note = None \/ Val(note).duration < MinStableDuration THEN None
        ELSE note

\* finishCurrentNote stamping the event with the time the note ended.
FinishCurrentNoteStampedAtEnd(start, midi, sum, count, endTime) ==
    LET note == FinishCurrentNoteNoMinimum(start, midi, sum, count, endTime)
    IN  IF note = None \/ Val(note).duration < MinStableDuration THEN None
        ELSE Some([Val(note) EXCEPT !.startTime = endTime])

\* finishCurrentNote(endTime) on the tracking fields given: the note returned
\* (or None).  Every path of finishCurrentNote ends in resetTracking(); the
\* callers below set the four tracking fields accordingly.
FinishCurrentNote(start, midi, sum, count, endTime) ==
    IF start = None \/ midi = None THEN None
    ELSE LET duration == endTime - Val(start) IN
         IF duration < MinStableDuration THEN None
         ELSE LET avgFrequency ==
                      IF count > 0 THEN sum \div count
                      ELSE MidiToFrequency(Val(midi))
                  noteInfo == FrequencyToNoteInfo(avgFrequency)
              IN  Some([note |-> noteInfo.note, octave |-> noteInfo.octave,
                        midiNumber |-> noteInfo.midiNumber,
                        startTime |-> Val(start), duration |-> duration,
                        frequency |-> avgFrequency])

Silent(pitchData) ==
    pitchData.frequency = None \/ pitchData.clarity < MinClarity

\* The observations in a row that map to one MIDI number, after a
\* processFrame call: a silent observation and one within a semitone of the
\* active note end the run, another MIDI number starts a run of one, and the
\* call that starts a note (the active MIDI number becomes another number)
\* uses the run up.
RunAfter(pitchData) ==
    IF Silent(pitchData) THEN [midi |-> None, count |-> 0]
    ELSE LET midiNumber == MidiOf(Val(pitchData.frequency))
             count == IF runMidi = Some(midiNumber) THEN runCount + 1 ELSE 1
         IN  IF currentMidi # None /\ Abs(midiNumber - Val(currentMidi)) <= 1
             THEN [midi |-> None, count |-> 0]
             ELSE IF currentMidi' # None /\ currentMidi' # currentMidi
             THEN [midi |-> None, count |-> 0]
             ELSE [midi |-> Some(midiNumber), count |-> count]

ProcessFrame(pitchData) ==
    LET frequency == pitchData.frequency
        timestamp == pitchData.timestamp
    IN
    /\ segOp' = "frame"
    /\ segIn' = pitchData
    /\ IF Silent(pitchData) THEN
          /\ silenceCount < MaxSilence
          /\ silenceCount' = silenceCount + 1
          /\ silentRun' = silentRun + 1
          /\ pendingMidi' = None
          /\ pendingCount' = 0
          /\ IF silenceCount + 1 >= SilenceThreshold /\ currentMidi # None
             THEN /\ segRet' = FinishCurrentNote(currentNoteStart, currentMidi,
                                     frequencySum, frequencyCount, timestamp)
                  /\ currentNoteStart' = None
                  /\ currentMidi' = None
                  /\ frequencySum' = 0
                  /\ frequencyCount' = 0
             ELSE /\ segRet' = None
                  /\ UNCHANGED << currentNoteStart, currentMidi,
                                  frequencySum, frequencyCount >>
       ELSE
          LET midiNumber == MidiOf(Val(frequency))
              distance == IF currentMidi = None THEN 0
                          ELSE Abs(midiNumber - Val(currentMidi))
          IN
          /\ silenceCount' = 0
          /\ silentRun' = 0
          /\ IF currentMidi # None /\ distance <= SemitoneTolerance THEN
                \* same note or adjacent: keep tracking the current note
                /\ IF distance = 0
                   THEN /\ frequencyCount < MaxFrequencyCount
                        /\ frequencySum' = frequencySum + Val(frequency)
                        /\ frequencyCount' = frequencyCount + 1
                   ELSE UNCHANGED << frequencySum, frequencyCount >>
                /\ pendingMidi' = None
                /\ pendingCount' = 0
                /\ segRet' = None
                /\ UNCHANGED << currentNoteStart, currentMidi >>
             ELSE IF Some(midiNumber) = pendingMidi
                     /\ pendingCount + 1 >= ConfirmationFrames THEN
                \* confirmed new note: finish the previous one, start the new
                /\ segRet' = FinishCurrentNote(currentNoteStart, currentMidi,
                                   frequencySum, frequencyCount, timestamp)
                /\ currentNoteStart' = Some(timestamp)
                /\ currentMidi' = Some(midiNumber)
                /\ frequencySum' = Val(frequency)
                /\ frequencyCount' = 1
                /\ pendingMidi' = None
                /\ pendingCount' = 0
             ELSE
                \* count a confirmation, or start a new pending candidate
                LET pc == IF Some(midiNumber) = pendingMidi
                          THEN pendingCount + 1 ELSE 1
                IN
                /\ segRet' = None
                /\ IF currentMidi = None /\ pc >= ConfirmationFrames
                   THEN /\ currentNoteStart' = Some(timestamp)
                        /\ currentMidi' = Some(midiNumber)
                        /\ frequencySum' = Val(frequency)
                        /\ frequencyCount' = 1
                        /\ pendingMidi' = None
                        /\ pendingCount' = 0
                   ELSE /\ pendingMidi' = Some(midiNumber)
                        /\ pendingCount' = pc
                        /\ UNCHANGED << currentNoteStart, currentMidi,
                                        frequencySum, frequencyCount >>
    /\ runMidi' = RunAfter(pitchData).midi
    /\ runCount' = RunAfter(pitchData).count
    /\ openedAt' = IF currentMidi' = None THEN None
                   ELSE IF currentMidi' # currentMidi THEN Some(timestamp)
                   ELSE openedAt

\* flush(endTime)
Flush(endTime) ==
    /\ segOp' = "flush"
    /\ segIn' = [frequency |-> None, clarity |-> 0, timestamp |-> endTime]
    /\ segRet' = FinishCurrentNote(currentNoteStart, currentMidi,
                       frequencySum, frequencyCount, endTime)
    /\ currentNoteStart' = None
    /\ currentMidi' = None
    /\ frequencySum' = 0
    /\ frequencyCount' = 0
    /\ openedAt' = None
    /\ UNCHANGED << pendingMidi, pendingCount, silenceCount, silentRun,
                    runMidi, runCount >>

\* A reset() that does what resetTracking() does and no more.
SegResetTrackingOnly ==
    /\ segOp' = "reset"
    /\ segIn' = [frequency |-> None, clarity |-> 0, timestamp |-> 0]
    /\ segRet' = None
    /\ currentNoteStart' = None
    /\ currentMidi' = None
    /\ frequencySum' = 0
    /\ frequencyCount' = 0
    /\ openedAt' = None
    /\ UNCHANGED << pendingMidi, pendingCount, silenceCount, silentRun,
                    runMidi, runCount >>

\* reset()
SegReset ==
    /\ segOp' = "reset"
    /\ segIn' = [frequency |-> None, clarity |-> 0, timestamp |-> 0]
    /\ segRet' = None
    /\ currentNoteStart' = None
    /\ currentMidi' = None
    /\ frequencySum' = 0
    /\ frequencyCount' = 0
    /\ pendingMidi' = None
    /\ pendingCount' = 0
    /\ silenceCount' = 0
    /\ silentRun' = 0
    /\ runMidi' = None
    /\ runCount' = 0
    /\ openedAt' = None

SegIdle ==
    /\ currentNoteStart = None
    /\ currentMidi = None
    /\ frequencySum = 0
    /\ frequencyCount = 0
    /\ pendingMidi = None
    /\ pendingCount = 0
    /\ silenceCount = 0
    /\ segOp = "new"
    /\ segIn = [frequency |-> None, clarity |-> 0, timestamp |-> 0]
    /\ segRet = None
    /\ silentRun = 0
    /\ silenceStart = None
    /\ emitted = << >>
    /\ runMidi = None
    /\ runCount = 0
    /\ openedAt = None

SegFrame ==
    \E f \in { None } \cup { Some(x) : x \in SegFrequencies },
       c \in SegClarities, t \in SegTimes :
        ProcessFrame([frequency |-> f, clarity |-> c, timestamp |-> t])

SegFlush == \E t \in SegTimes : Flush(t)

\* The segmenter as the store drives it: timestamps read from a clock, so
\* none is earlier than the one before it, and a reset before the clock
\* starts again.
SilenceStartAfter(pitchData) ==
    IF ~Silent(pitchData) \/ currentMidi = None THEN None
    ELSE IF silentRun = 0 THEN Some(pitchData.timestamp)
    ELSE silenceStart

ClockFrame ==
    \E f \in { None } \cup { Some(x) : x \in SegFrequencies },
       c \in SegClarities, t \in SegTimes :
        /\ t >= segIn.timestamp
        /\ ProcessFrame([frequency |-> f, clarity |-> c, timestamp |-> t])
        /\ silenceStart' =
               SilenceStartAfter([frequency |-> f, clarity |-> c,
                                  timestamp |-> t])

ClockFlush ==
    \E t \in SegTimes :
        /\ t >= segIn.timestamp
        /\ Flush(t)
        /\ silenceStart' = None

ClockReset == SegReset /\ silenceStart' = None

(***************************************************************************)
(* PitchDetector (the pitch stabilizer).  The YIN estimate of a frame and  *)
(* the frame's RMS clarity are inputs.                                     *)
(***************************************************************************)
MinFrequency == 8000
MaxFrequency == 100000
HistorySize == 12
SmoothingPercent == 15
FirstNoteConfirmations == 5
\* A stabilizer that follows a jump after 5 confirmations.
JumpConfirmationsEarly == 6 - 1
JumpConfirmations == 6
\* A stabilizer that follows a one-semitone step after 7 confirmations.
StepConfirmationsEarly == 8 - 1
StepConfirmations == 8
\* A stabilizer that resets only when 7 history entries are null.
NullResetCountLate == 6 + 1
NullResetCount == 6
\* clarity > 0.01
LoudClarity == 10

\* Bound: how often the validated estimate may change during a behaviour.
MaxInputChanges == 2

\* Raw estimates: none, 70 Hz (below the vocal range), A4, A#4, B4.
DetRawFrequencies == { None, Some(7000), Some(44000), Some(46616), Some(49388) }
DetClarities == { 10, 500 }

\* [...validPitches].sort((a, b) => a - b)
RECURSIVE SortAscending(_)
SortAscending(seq) ==
    IF Len(seq) <= 1 THEN seq
    ELSE LET rest == SortAscending(Tail(seq))
             x == Head(seq)
             smaller == SelectSeq(rest, LAMBDA y : y < x)
             others == SelectSeq(rest, LAMBDA y : y >= x)
         IN  smaller \o << x >> \o others

\* getMedianPitch() on a history
GetMedianPitch(history) ==
    LET valid == SelectSeq(history, LAMBDA p : p # None)
        validPitches == [i \in 1 .. Len(valid) |-> Val(valid[i])]
        n == Len(validPitches)
    IN  IF n < 3
        THEN IF n > 0 THEN Some(validPitches[n]) ELSE None
        ELSE LET sorted == SortAscending(validPitches)
                 mid == n \div 2
             IN  IF n % 2 = 0
                 THEN Some((sorted[mid] + sorted[mid + 1]) \div 2)
                 ELSE Some(sorted[mid + 1])

\* countConfirmedPitches(targetMidi) on a history
CountConfirmedPitches(history, targetMidi) ==
    Len(SelectSeq(history,
            LAMBDA p : p # None /\ MidiOf(Val(p)) = targetMidi))

NullCount(history) == Len(SelectSeq(history, LAMBDA p : p = None))

\* The validation of the raw estimate against the vocal range.
ValidFrequency(rawFrequency) ==
    IF rawFrequency # None /\ Val(rawFrequency) >= MinFrequency
       /\ Val(rawFrequency) <= MaxFrequency
    THEN rawFrequency ELSE None

\* smoothingFactor * median + (1 - smoothingFactor) * smoothed, in centi-Hz
Smooth(median, smoothed) ==
    (SmoothingPercent * median + (100 - SmoothingPercent) * smoothed) \div 100

\* detect(audioData, timestamp): rawFrequency is YIN's estimate of the block
\* and clarity its calculateClarity value.
Detect(rawFrequency, clarity) ==
    LET validFrequency == ValidFrequency(rawFrequency)
        pushed == Append(pitchHistory, validFrequency)
        history == IF Len(pushed) > HistorySize THEN Tail(pushed) ELSE pushed
        medianFrequency == GetMedianPitch(history)
        changed == pitchHistory # << >>
                   /\ pitchHistory[Len(pitchHistory)] # validFrequency
    IN
    /\ changed => detChanges < MaxInputChanges
    /\ detChanges' = IF changed THEN detChanges + 1 ELSE detChanges
    /\ detOp' = "detect"
    /\ detClarity' = clarity
    /\ detPrevMidi' = currentMidiNote
    /\ pitchHistory' = history
    /\ IF medianFrequency # None /\ clarity > LoudClarity THEN
          LET newMidiNote == MidiOf(Val(medianFrequency))
              confirmed == CountConfirmedPitches(history, newMidiNote)
              switch == /\ currentMidiNote' = Some(newMidiNote)
                        /\ smoothedFrequency' = Some(MidiToFrequency(newMidiNote))
              stay == UNCHANGED << currentMidiNote, smoothedFrequency >>
          IN
          IF currentMidiNote = None THEN
             IF confirmed >= FirstNoteConfirmations THEN switch ELSE stay
          ELSE
             LET semitoneDistance == Abs(newMidiNote - Val(currentMidiNote)) IN
             IF semitoneDistance = 0 THEN
                /\ smoothedFrequency' =
                      Some(Smooth(Val(medianFrequency), Val(smoothedFrequency)))
                /\ UNCHANGED currentMidiNote
             ELSE IF semitoneDistance >= 2 THEN
                IF confirmed >= JumpConfirmations THEN switch ELSE stay
             ELSE
                IF confirmed >= StepConfirmations THEN switch ELSE stay
       ELSE
          IF NullCount(history) >= NullResetCount
          THEN /\ smoothedFrequency' = None
               /\ currentMidiNote' = None
          ELSE UNCHANGED << smoothedFrequency, currentMidiNote >>

\* reset()
DetReset ==
    /\ detOp' = "reset"
    /\ pitchHistory' = << >>
    /\ smoothedFrequency' = None
    /\ currentMidiNote' = None
    /\ detPrevMidi' = currentMidiNote
    /\ UNCHANGED << detClarity, detChanges >>

DetIdle ==
    /\ pitchHistory = << >>
    /\ smoothedFrequency = None
    /\ currentMidiNote = None
    /\ detOp = "new"
    /\ detClarity = 0
    /\ detPrevMidi = None
    /\ detChanges = 0

DetFrame ==
    \E r \in DetRawFrequencies, c \in DetClarities :
        Detect(r, c) /\ UNCHANGED segVars

DetResetCall == DetReset /\ UNCHANGED segVars

(***************************************************************************)
(* TempoQuantizer: the tempo estimator and the grid quantizer.             *)
(***************************************************************************)
DefaultBpm == 120
DefaultSubdivision == 8
MinManualBpm == 40
MaxManualBpm == 240
MinDetectedBpm == 60
MaxDetectedBpm == 180
\* d > 0.1 && d < 2, and the clustering tolerance 0.15, in centiseconds
MinBeatDuration == 10
MaxBeatDuration == 200
ClusterTolerance == 15
\* the 0.01 s kept free before the next note
OverlapMargin == 1

\* A filter that also keeps the durations 0.1 s and 2 s.
ShortDurationsInclusive(ns) ==
    LET all == [i \in 1 .. Len(ns) |-> ns[i].duration]
    IN  SelectSeq(all, LAMBDA d : FLeq(FInt(MinBeatDuration), d)
                                  /\ FLeq(d, FInt(MaxBeatDuration)))

\* durations.filter(d => d > 0.1 && d < 2)
ShortDurations(ns) ==
    LET all == [i \in 1 .. Len(ns) |-> ns[i].duration]
    IN  SelectSeq(all, LAMBDA d : FLess(FInt(MinBeatDuration), d)
                                  /\ FLess(d, FInt(MaxBeatDuration)))

\* A clustering that takes the durations in the order of the notes.
SortDurationsKept(seq) == seq

\* [...durations].sort((a, b) => a - b)
RECURSIVE SortDurations(_)
SortDurations(seq) ==
    IF Len(seq) <= 1 THEN seq
    ELSE LET rest == SortDurations(Tail(seq))
             x == Head(seq)
             smaller == SelectSeq(rest, LAMBDA y : FLess(y, x))
             others == SelectSeq(rest, LAMBDA y : ~FLess(y, x))
         IN  smaller \o << x >> \o others

\* The loop of clusterDurations: each duration joins the first cluster whose
\* centre is within the tolerance, or starts a cluster of its own.
RECURSIVE AddToClusters(_, _)
AddToClusters(clusters, sorted) ==
    IF sorted = << >> THEN clusters
    ELSE LET duration == Head(sorted)
             near == { i \in 1 .. Len(clusters) :
                         FLess(FAbs(FSub(clusters[i].center, duration)),
                               FInt(ClusterTolerance)) }
         IN  IF near # {}
             THEN LET i == CHOOSE j \in near : \A k \in near : j <= k
                      c == clusters[i]
                      sum == FAdd(c.sum, duration)
                      joined == [center |-> FDiv(sum, FInt(c.count + 1)),
                                 count |-> c.count + 1, sum |-> sum]
                  IN  AddToClusters([clusters EXCEPT ![i] = joined], Tail(sorted))
             ELSE AddToClusters(
                      Append(clusters, [center |-> duration, count |-> 1,
                                        sum |-> duration]),
                      Tail(sorted))

\* A sort by count that puts the later of two equal clusters first.
RECURSIVE SortByCountLaterFirst(_)
SortByCountLaterFirst(clusters) ==
    IF Len(clusters) <= 1 THEN clusters
    ELSE LET rest == SortByCountLaterFirst(Tail(clusters))
             c == Head(clusters)
             bigger == SelectSeq(rest, LAMBDA x : x.count >= c.count)
             others == SelectSeq(rest, LAMBDA x : x.count < c.count)
         IN  bigger \o << c >> \o others

\* clusters.sort((a, b) => b.count - a.count): a stable sort
RECURSIVE SortByCountDescending(_)
SortByCountDescending(clusters) ==
    IF Len(clusters) <= 1 THEN clusters
    ELSE LET rest == SortByCountDescending(Tail(clusters))
             c == Head(clusters)
             bigger == SelectSeq(rest, LAMBDA x : x.count > c.count)
             others == SelectSeq(rest, LAMBDA x : x.count <= c.count)
         IN  bigger \o << c >> \o others

ClusterDurations(durations) ==
    SortByCountDescending(AddToClusters(<< >>, SortDurations(durations)))

\* A tempo estimate that is rounded and not clamped.
RoundedOnly(rounded) == rounded

\* Math.max(60, Math.min(180, Math.round(bpm))), on the rounded value
ClampDetected(rounded) ==
    Max(MinDetectedBpm, Min(MaxDetectedBpm, rounded))

\* detectTempo(notes)
DetectTempo(ns) ==
    IF Len(ns) < 2 THEN DefaultBpm
    ELSE LET shortDurations == ShortDurations(ns) IN
         IF Len(shortDurations) = 0 THEN DefaultBpm
         ELSE LET clusters == ClusterDurations(shortDurations)
                  \* clusters[0]?.center || 0.5
                  dominantDuration ==
                      IF clusters # << >> /\ clusters[1].center.n # 0
                      THEN clusters[1].center ELSE FInt(50)
                  raw == FDiv(FInt(6000), dominantDuration)
                  halved == IF FLess(FInt(MaxDetectedBpm), raw)
                            THEN FDiv(raw, FInt(2)) ELSE raw
                  doubled == IF FLess(halved, FInt(MinDetectedBpm))
                             THEN FMul(halved, FInt(2)) ELSE halved
              IN  ClampDetected(FRound(doubled))

\* The grid unit, beatDuration / (subdivision / 4), in centiseconds.
GridSize(b, sub) == Frac(6000 * 4, b * sub)

\* The body of quantize's notes.map for the note at index i, on a grid of
\* gridSize.
QuantizeNote(ns, i, gridSize) ==
    LET firstNoteStart == ns[1].startTime
        note == ns[i]
        relativeStart == FSub(note.startTime, firstNoteStart)
        quantizedStart ==
            FMul(FInt(FRound(FDiv(relativeStart, gridSize))), gridSize)
        gridUnits == Max(1, FRound(FDiv(note.duration, gridSize)))
        quantizedDuration == FMul(FInt(gridUnits), gridSize)
        finalDuration ==
            IF i < Len(ns)
            THEN LET nextRelativeStart == FSub(ns[i + 1].startTime, firstNoteStart)
                     nextQuantizedStart ==
                         FMul(FInt(FRound(FDiv(nextRelativeStart, gridSize))),
                              gridSize)
                     maxDuration ==
                         FSub(FSub(nextQuantizedStart, quantizedStart),
                              FInt(OverlapMargin))
                 IN  IF FLess(FInt(0), maxDuration)
                        /\ FLess(maxDuration, quantizedDuration)
                     THEN FMax(gridSize,
                               FMul(FInt(FFloor(FDiv(maxDuration, gridSize))),
                                    gridSize))
                     ELSE quantizedDuration
            ELSE quantizedDuration
    IN  [note EXCEPT !.startTime = quantizedStart, !.duration = finalDuration]

\* The notes quantize returns when settings.bpm is b and
\* settings.subdivision is sub.
QuantizeAt(ns, b, sub) ==
    IF Len(ns) = 0 THEN << >>
    ELSE [i \in 1 .. Len(ns) |-> QuantizeNote(ns, i, GridSize(b, sub))]

BpmAlwaysDetected(ns, autoDetectTempo, b) ==
    IF Len(ns) # 0 THEN DetectTempo(ns) ELSE b

\* The value quantize(notes, autoDetectTempo) leaves in settings.bpm.
BpmAfterQuantize(ns, autoDetectTempo, b) ==
    IF Len(ns) # 0 /\ autoDetectTempo THEN DetectTempo(ns) ELSE b

\* TempoQuantizer.setBpm's clamp
ClampBpm(b) == Max(MinManualBpm, Min(MaxManualBpm, b))

KeepNoteTimes(ns) == ns

\* AudioState.normalizeNoteTimes
NormalizeNoteTimes(ns) ==
    IF Len(ns) = 0 THEN << >>
    ELSE LET firstStart == ns[1].startTime
         IN  [i \in 1 .. Len(ns) |->
                 [ns[i] EXCEPT !.startTime = FSub(ns[i].startTime, firstStart)]]

(***************************************************************************)
(* AbcGenerator: the notation encoder.                                     *)
(***************************************************************************)
DefaultNoteLength == 8

\* duration / (60 / bpm / 2) <= bound / 2, for a duration in centiseconds:
\* the eighth note lasts 3000 / bpm centiseconds.
RelativeLengthAtMost(duration, b, twiceBound) ==
    2 * duration.n * b <= twiceBound * 3000 * duration.d

GetDurationSuffix(duration, b) ==
    IF RelativeLengthAtMost(duration, b, 3) THEN ""
    ELSE IF RelativeLengthAtMost(duration, b, 6) THEN "2"
    ELSE IF RelativeLengthAtMost(duration, b, 12) THEN "4"
    ELSE "8"

DurationToEighths(duration, b) ==
    IF RelativeLengthAtMost(duration, b, 3) THEN 1
    ELSE IF RelativeLengthAtMost(duration, b, 6) THEN 2
    ELSE IF RelativeLengthAtMost(duration, b, 12) THEN 4
    ELSE 8

\* A playback estimate whose comparisons are < in place of <=.
PlaybackEighthsStrict(duration, b) ==
    IF 2 * duration.n * b < 3 * 3000 * duration.d THEN 1
    ELSE IF 2 * duration.n * b < 6 * 3000 * duration.d THEN 2
    ELSE IF 2 * duration.n * b < 12 * 3000 * duration.d THEN 4
    ELSE 8

\* getAbcPlaybackDuration, the body of its loop: what one note adds to
\* totalEighths
PlaybackEighths(duration, b) ==
    IF RelativeLengthAtMost(duration, b, 3) THEN 1
    ELSE IF RelativeLengthAtMost(duration, b, 6) THEN 2
    ELSE IF RelativeLengthAtMost(duration, b, 12) THEN 4
    ELSE 8

RECURSIVE TotalEighths(_, _)
TotalEighths(ns, b) ==
    IF ns = << >> THEN 0
    ELSE PlaybackEighths(Head(ns).duration, b) + TotalEighths(Tail(ns), b)

\* getAbcPlaybackDuration(notes, bpm), in centiseconds
GetAbcPlaybackDuration(ns, b) ==
    FMul(FInt(TotalEighths(ns, b)), Frac(3000, b))

ABC_NOTES ==
    [ x \in { NOTE_NAMES[i] : i \in 1 .. 12 } |->
        CASE x = "C#" -> "^C" [] x = "D#" -> "^D" [] x = "F#" -> "^F"
          [] x = "G#" -> "^G" [] x = "A#" -> "^A" [] OTHER -> x ]

\* baseNote.replace(/([A-G])/, m => m.toLowerCase())
LowerCaseNote ==
    [ x \in { NOTE_NAMES[i] : i \in 1 .. 12 } |->
        CASE x = "C" -> "c" [] x = "C#" -> "^c" [] x = "D" -> "d"
          [] x = "D#" -> "^d" [] x = "E" -> "e" [] x = "F" -> "f"
          [] x = "F#" -> "^f" [] x = "G" -> "g" [] x = "G#" -> "^g"
          [] x = "A" -> "a" [] x = "A#" -> "^a" [] x = "B" -> "b" ]

RECURSIVE Repeat(_, _)
Repeat(str, count) == IF count <= 0 THEN "" ELSE str \o Repeat(str, count - 1)

\* A token with one apostrophe per octave above 4.
NoteToAbcFromFour(note, b) ==
    LET baseNote == ABC_NOTES[note.note]
        noteStr ==
            IF note.octave >= 5
            THEN LowerCaseNote[note.note] \o Repeat("'", note.octave - 4)
            ELSE IF note.octave < 4
            THEN baseNote \o Repeat(",", 4 - note.octave)
            ELSE baseNote
    IN  noteStr \o GetDurationSuffix(note.duration, b)

NoteToAbc(note, b) ==
    LET baseNote == ABC_NOTES[note.note]
        noteStr ==
            IF note.octave >= 5
            THEN LowerCaseNote[note.note]
                 \o (IF note.octave > 5 THEN Repeat("'", note.octave - 5) ELSE "")
            ELSE IF note.octave < 4
            THEN baseNote \o Repeat(",", 4 - note.octave)
            ELSE baseNote
    IN  noteStr \o GetDurationSuffix(note.duration, b)

\* A body whose measure count starts again from 0 after each bar line.
RECURSIVE BodyTokensNoCarry(_, _, _)
BodyTokensNoCarry(ns, k, b) ==
    IF k = 0 THEN [abcNotes |-> << >>, currentMeasureDuration |-> 0]
    ELSE LET before == BodyTokensNoCarry(ns, k - 1, b)
             withNote == Append(before.abcNotes, NoteToAbc(ns[k], b))
             total == before.currentMeasureDuration
                      + DurationToEighths(ns[k].duration, b)
         IN  IF total >= DefaultNoteLength
             THEN [abcNotes |-> Append(withNote, "|"),
                   currentMeasureDuration |-> 0]
             ELSE [abcNotes |-> withNote, currentMeasureDuration |-> total]

\* The token list generateBody builds, with the eighths carried into the
\* current measure: the state after the loop has handled ns[1..k].
RECURSIVE BodyTokens(_, _, _)
BodyTokens(ns, k, b) ==
    IF k = 0 THEN [abcNotes |-> << >>, currentMeasureDuration |-> 0]
    ELSE LET before == BodyTokens(ns, k - 1, b)
             withNote == Append(before.abcNotes, NoteToAbc(ns[k], b))
             total == before.currentMeasureDuration
                      + DurationToEighths(ns[k].duration, b)
         IN  IF total >= DefaultNoteLength
             THEN [abcNotes |-> Append(withNote, "|"),
                   currentMeasureDuration |-> total % DefaultNoteLength]
             ELSE [abcNotes |-> withNote, currentMeasureDuration |-> total]

\* abcNotes.join(' ')
RECURSIVE Join(_)
Join(tokens) ==
    IF tokens = << >> THEN ""
    ELSE IF Len(tokens) = 1 THEN tokens[1]
    ELSE tokens[1] \o " " \o Join(Tail(tokens))

\* generateBody: a note token never ends in "|", so the body ends in "|"
\* exactly when its last token is the bar line.
GenerateBody(ns, b) ==
    LET abcNotes == BodyTokens(ns, Len(ns), b).abcNotes
        body == Join(abcNotes)
    IN  IF abcNotes[Len(abcNotes)] = "|" THEN body \o "|" ELSE body \o " |]"

GenerateHeader(b) ==
    "X:1\nT:Recorded Melody\nM:4/4\nL:1/" \o ToString(DefaultNoteLength)
    \o "\nQ:1/4=" \o ToString(b) \o "\nK:C\n"

\* An encoder that writes the header and the closing bar for no notes too.
GenerateHeaderFirst(ns, b) ==
    GenerateHeader(b) \o (IF Len(ns) = 0 THEN " |]" ELSE GenerateBody(ns, b))

\* generate(notes) with the encoder's bpm at b
Generate(ns, b) ==
    IF Len(ns) = 0 THEN "" ELSE GenerateHeader(b) \o GenerateBody(ns, b)

(***************************************************************************)
(* The quantizer and the encoder as objects: a caller holds a note array   *)
(* and calls their methods on it.                                          *)
(***************************************************************************)
\* Bound: the longest note array.
MaxNotes == 2

\* Inputs: where the first note starts, how long after a note's start the
\* next one starts, and how long a note lasts (centiseconds).
FirstStarts == { 0, 30 }
StartSteps == { 20, 50, 65 }
NoteDurations == { 20, 50, 110 }
BpmRequests == { 35, 60, 120 }
Subdivisions == { 4, 8 }

A4Note(start, duration) ==
    [note |-> "A", octave |-> 4, midiNumber |-> 69,
     startTime |-> FInt(start), duration |-> FInt(duration),
     frequency |-> 44000]

\* The note arrays of a given length: sorted by start time.
RECURSIVE Melodies(_)
Melodies(len) ==
    IF len = 0 THEN { << >> }
    ELSE IF len = 1
    THEN { << A4Note(s, d) >> : s \in FirstStarts, d \in NoteDurations }
    ELSE { Append(m, A4Note(m[len - 1].startTime.n + step, d)) :
             m \in Melodies(len - 1), step \in StartSteps, d \in NoteDurations }

AllMelodies == UNION { Melodies(len) : len \in 0 .. MaxNotes }

\* Bound: the longest note array handed to detectTempo alone.
MaxTempoNotes == 3

\* Inputs of detectTempo: note durations at and inside the limits 0.1 s and
\* 2 s of a plausible beat, with 0.35 s at the clustering tolerance from
\* 0.2 s and 0.3 s inside it from the mean of 0.12 s and 0.2 s; each note
\* starts where the one before it ends.
TempoDurations == { 10, 12, 20, 30, 35, 50, 110, 200 }

RECURSIVE TempoMelodies(_)
TempoMelodies(len) ==
    IF len = 0 THEN { << >> }
    ELSE { Append(m, A4Note(IF len = 1 THEN 0
                            ELSE m[len - 1].startTime.n + m[len - 1].duration.n,
                            d)) :
             m \in TempoMelodies(len - 1), d \in TempoDurations }

AllTempoMelodies == UNION { TempoMelodies(len) : len \in 0 .. MaxTempoNotes }

NoResult ==
    /\ qOut' = << >>
    /\ qAgain' = << >>
    /\ qTempo' = 0
    /\ abcOut' = ""

NoUnits ==
    [op |-> "new", suffixes |-> << >>, eighths |-> << >>,
     playbackEighths |-> << >>, playbackDuration |-> FInt(0)]

QuantIdle ==
    /\ unitsOut = NoUnits
    /\ bpm = DefaultBpm
    /\ subdivision = DefaultSubdivision
    /\ abcBpm = DefaultBpm
    /\ qOp = "new"
    /\ qOut = << >>
    /\ qAgain = << >>
    /\ qTempo = 0
    /\ abcOut = ""

\* tempoQuantizer.setBpm(b)
QSetBpm(b) ==
    /\ qOp' = "setBpm"
    /\ bpm' = ClampBpm(b)
    /\ NoResult
    /\ UNCHANGED << notes, subdivision, abcBpm >>

\* tempoQuantizer.setSubdivision(sub)
QSetSubdivision(sub) ==
    /\ qOp' = "setSubdivision"
    /\ subdivision' = sub
    /\ NoResult
    /\ UNCHANGED << notes, bpm, abcBpm >>

\* tempoQuantizer.detectTempo(notes)
QDetectTempo ==
    /\ qOp' = "detectTempo"
    /\ qTempo' = DetectTempo(notes)
    /\ qOut' = << >>
    /\ qAgain' = << >>
    /\ abcOut' = ""
    /\ UNCHANGED << notes, bpm, subdivision, abcBpm >>

\* tempoQuantizer.quantize(notes, autoDetectTempo)
QQuantize(autoDetectTempo) ==
    /\ qOp' = IF autoDetectTempo THEN "quantizeAuto" ELSE "quantize"
    /\ bpm' = BpmAfterQuantize(notes, autoDetectTempo, bpm)
    /\ qOut' = QuantizeAt(notes, bpm', subdivision)
    /\ qAgain' = << >>
    /\ qTempo' = 0
    /\ abcOut' = ""
    /\ UNCHANGED << notes, subdivision, abcBpm >>

\* tempoQuantizer.quantize(out, false) on the array out the last quantize
\* call returned
QQuantizeAgain ==
    /\ qOp \in { "quantize", "quantizeAuto" }
    /\ qOp' = "quantizeAgain"
    /\ bpm' = BpmAfterQuantize(qOut, FALSE, bpm)
    /\ qAgain' = QuantizeAt(qOut, bpm', subdivision)
    /\ UNCHANGED << notes, subdivision, abcBpm, qOut, qTempo, abcOut >>

\* normalizeNoteTimes(notes)
QNormalize ==
    /\ qOp' = "normalize"
    /\ qOut' = NormalizeNoteTimes(notes)
    /\ qAgain' = << >>
    /\ qTempo' = 0
    /\ abcOut' = ""
    /\ UNCHANGED << notes, bpm, subdivision, abcBpm >>

\* abcGenerator.setBpm(b)
AbcSetBpm(b) ==
    /\ qOp' = "abcSetBpm"
    /\ abcBpm' = b
    /\ NoResult
    /\ UNCHANGED << notes, bpm, subdivision >>

\* abcGenerator.generate(notes)
AbcGenerate ==
    /\ qOp' = "generate"
    /\ abcOut' = Generate(notes, abcBpm)
    /\ qOut' = << >>
    /\ qAgain' = << >>
    /\ qTempo' = 0
    /\ UNCHANGED << notes, bpm, subdivision, abcBpm >>

\* The three conversions of note durations to eighth-note units, applied to
\* the notes at the encoder's BPM: getDurationSuffix and durationToEighths
\* as generate calls them, and getAbcPlaybackDuration as playMelody does.
\* Bound: the longest note array they are given.
MaxUnitNotes == 2

\* Durations at and next to the limits between the buckets: the eighth note
\* lasts 40 cs at 75 BPM, 25 cs at 120 BPM and 20 cs at 150 BPM.
UnitDurations == { 15, 30, 31, 37, 38, 60, 61, 75, 76, 120, 121, 150, 151, 241 }
UnitBpms == { 75, 120, 150 }

RECURSIVE UnitMelodies(_)
UnitMelodies(len) ==
    IF len = 0 THEN { << >> }
    ELSE { Append(m, A4Note(IF len = 1 THEN 0
                            ELSE m[len - 1].startTime.n + m[len - 1].duration.n,
                            d)) :
             m \in UnitMelodies(len - 1), d \in UnitDurations }

AllUnitMelodies == UNION { UnitMelodies(len) : len \in 0 .. MaxUnitNotes }

ConvertDurations ==
    /\ unitsOut' =
          [op |-> "convert",
           suffixes |-> [i \in 1 .. Len(notes) |->
                            GetDurationSuffix(notes[i].duration, abcBpm)],
           eighths |-> [i \in 1 .. Len(notes) |->
                           DurationToEighths(notes[i].duration, abcBpm)],
           playbackEighths |-> [i \in 1 .. Len(notes) |->
                                   PlaybackEighths(notes[i].duration, abcBpm)],
           playbackDuration |-> GetAbcPlaybackDuration(notes, abcBpm)]
    /\ UNCHANGED << notes, bpm, subdivision, abcBpm,
                    qOp, qOut, qAgain, qTempo, abcOut >>

(***************************************************************************)
(* AudioState, the store.  Its PitchDetector and NoteQuantizer are the     *)
(* components above; here a frame's trip through both is reduced to what   *)
(* processFrame and flush hand back to the store: nothing, or a note that  *)
(* lasts at least the minimum duration and starts no earlier than the end  *)
(* of the note before it.  playbackPosition, a clock reading, is left out. *)
(***************************************************************************)
\* Bounds: the processAudio callbacks scheduled at a time, the notes of a
\* recording, and the window in which the -5 / +5 buttons are followed.
MaxScheduledFrames == 2
MaxRawNotes == 2
LowestSteppedBpm == 35
HighestSteppedBpm == 45

BpmStep == 5
\* The AudioRecorder objects alive at a time: the Record button stays on
\* screen while a start waits for the microphone, so a second start, with a
\* second recorder, can begin before the first completes.
RecorderIds == { 1, 2 }
StoreGaps == { 0, 15 }
StoreDurations == { 20, 50 }
StartError == "Failed to start recording"
NullRecorderError == "Cannot read properties of null"

NoteEnd(note) == note.startTime.n + note.duration.n

\* The notes processFrame or flush can return next.
NextNotes ==
    IF Len(rawNotes) >= MaxRawNotes THEN {}
    ELSE { A4Note(lastNoteEnd + gap, d) : gap \in StoreGaps, d \in StoreDurations }

\* The segmenter's record once processFrame, or flush, has been called on it.
AfterProcessFrame(seg) ==
    IF seg \in { "flushed", "flushedAgain" } THEN "usedAfterFlush" ELSE seg

AfterFlush(seg) == IF seg = "live" THEN "flushed" ELSE "flushedAgain"

\* A closed recorder nothing refers to any more is garbage.
Collect(recs, ref) ==
    [id \in RecorderIds |->
        IF recs[id] = "closed" /\ ref # Some(id) THEN "free" ELSE recs[id]]

StoreIdle ==
    /\ status = "idle"
    /\ currentPitch = FALSE
    /\ detectedNotes = << >>
    /\ rawNotes = << >>
    /\ abcNotation = ""
    /\ error = None
    /\ detectedBpm = 120
    /\ quantizeEnabled = FALSE
    /\ isPlaying = FALSE
    /\ recorder = None
    /\ pitchDetector = FALSE
    /\ noteQuantizer = FALSE
    /\ animationFrameId = "null"
    /\ recorders = [id \in RecorderIds |-> "free"]
    /\ scheduledFrames = 0
    /\ lastNoteEnd = 0
    /\ segmenter = "null"

\* startRecording up to its await: the new recorder's start() has checked
\* isRecording and waits for the microphone.
StartRecording(id) ==
    /\ status # "recording"
    /\ Collect(recorders, None)[id] = "free"
    /\ error' = None
    /\ detectedNotes' = << >>
    /\ rawNotes' = << >>
    /\ abcNotation' = ""
    /\ currentPitch' = FALSE
    /\ recorder' = Some(id)
    /\ recorders' = [Collect(recorders, None) EXCEPT ![id] = "starting"]
    /\ UNCHANGED << status, detectedBpm, quantizeEnabled, isPlaying,
                    pitchDetector, noteQuantizer, animationFrameId,
                    scheduledFrames, lastNoteEnd,
                    segmenter, bpm, subdivision, abcBpm >>

\* The microphone is granted to recorder id: its start() completes and
\* startRecording goes on after the await, down to its call of processAudio,
\* whose first frame a new NoteQuantizer answers with no note.
StartResolved(id) ==
    /\ recorders[id] = "starting"
    /\ recorders' = [recorders EXCEPT ![id] = "open"]
    /\ IF recorder = None
       THEN \* this.recorder.getSampleRate() throws
            /\ error' = Some(NullRecorderError)
            /\ status' = "idle"
            /\ UNCHANGED << currentPitch, pitchDetector, noteQuantizer,
                            animationFrameId, scheduledFrames, lastNoteEnd,
                            segmenter >>
       ELSE /\ scheduledFrames < MaxScheduledFrames
            /\ pitchDetector' = TRUE
            /\ noteQuantizer' = TRUE
            /\ status' = "recording"
            /\ lastNoteEnd' = 0
            /\ segmenter' = "live"
            /\ currentPitch' =
                   IF recorders'[Val(recorder)] = "open" THEN TRUE
                   ELSE currentPitch
            /\ animationFrameId' = "pending"
            /\ scheduledFrames' = scheduledFrames + 1
            /\ UNCHANGED error
    /\ UNCHANGED << detectedNotes, rawNotes, abcNotation, detectedBpm,
                    quantizeEnabled, isPlaying, recorder, bpm, subdivision,
                    abcBpm >>

\* The microphone is refused to recorder id: its start() cleans up and
\* throws, and startRecording's catch block runs.
StartRejected(id) ==
    /\ recorders[id] = "starting"
    /\ recorders' = Collect([recorders EXCEPT ![id] = "closed"], recorder)
    /\ error' = Some(StartError)
    /\ status' = "idle"
    /\ UNCHANGED << currentPitch, detectedNotes, rawNotes, abcNotation,
                    detectedBpm, quantizeEnabled, isPlaying, recorder,
                    pitchDetector, noteQuantizer, animationFrameId,
                    scheduledFrames, lastNoteEnd,
                    segmenter, bpm, subdivision, abcBpm >>

\* A scheduled processAudio callback runs.  wasStored: it is the callback
\* animationFrameId names; frame: what processFrame returns for the frame.
ProcessAudio(wasStored, frame) ==
    /\ scheduledFrames > 0
    /\ IF wasStored THEN animationFrameId = "pending"
       ELSE scheduledFrames > (IF animationFrameId = "pending" THEN 1 ELSE 0)
    /\ IF status # "recording" \/ recorder = None \/ ~pitchDetector
          \/ ~noteQuantizer
       THEN /\ frame = None
            /\ animationFrameId' =
                   IF wasStored THEN "fired" ELSE animationFrameId
            /\ scheduledFrames' = scheduledFrames - 1
            /\ UNCHANGED << currentPitch, rawNotes, lastNoteEnd, segmenter >>
       ELSE /\ IF recorders[Val(recorder)] = "open"
               THEN /\ currentPitch' = TRUE
                    /\ segmenter' = AfterProcessFrame(segmenter)
                    /\ IF frame # None
                       THEN /\ rawNotes' = Append(rawNotes, Val(frame))
                            /\ lastNoteEnd' = NoteEnd(Val(frame))
                       ELSE UNCHANGED << rawNotes, lastNoteEnd >>
               ELSE /\ frame = None
                    /\ UNCHANGED << currentPitch, rawNotes, lastNoteEnd,
                                    segmenter >>
            /\ animationFrameId' = "pending"
            /\ UNCHANGED scheduledFrames
    /\ UNCHANGED << status, detectedNotes, abcNotation, error, detectedBpm,
                    quantizeEnabled, isPlaying, recorder, pitchDetector,
                    noteQuantizer, recorders, bpm, subdivision, abcBpm >>

\* What stopRecording computes: the raw notes once flush has returned
\* finalNote, and from them the quantizer's BPM, the notes shown, the BPM
\* published and the recorders left.
RawAfterFlush(finalNote) ==
    IF finalNote # None THEN Append(rawNotes, Val(finalNote)) ELSE rawNotes

QuantizedAtStop(raw) == quantizeEnabled /\ Len(raw) > 0

BpmAtStop(raw) ==
    IF QuantizedAtStop(raw) THEN BpmAfterQuantize(raw, TRUE, bpm) ELSE bpm

ShownAtStop(raw) ==
    IF QuantizedAtStop(raw) THEN QuantizeAt(raw, BpmAtStop(raw), subdivision)
    ELSE NormalizeNoteTimes(raw)

PublishedAtStop(raw) ==
    IF QuantizedAtStop(raw) THEN BpmAtStop(raw) ELSE detectedBpm

RecordersAtStop ==
    Collect(IF recorder # None /\ recorders[Val(recorder)] = "open"
            THEN [recorders EXCEPT ![Val(recorder)] = "closed"]
            ELSE recorders,
            None)

\* if (this.noteQuantizer) { ... this.noteQuantizer.flush(currentTime) ... }
SegmenterAtStop ==
    IF noteQuantizer THEN AfterFlush(segmenter) ELSE segmenter

\* cancelAnimationFrame(animationFrameId)
FramesAfterCancel ==
    IF animationFrameId = "pending" THEN scheduledFrames - 1
    ELSE scheduledFrames

\* The notes flush can return to stopRecording.
FinalNotes ==
    IF noteQuantizer THEN { None } \cup { Some(n) : n \in NextNotes }
    ELSE { None }

StopRecording(finalNote) ==
    /\ status = "recording"
    /\ rawNotes' = RawAfterFlush(finalNote)
    /\ detectedNotes' = ShownAtStop(rawNotes')
    /\ bpm' = BpmAtStop(rawNotes')
    /\ detectedBpm' = PublishedAtStop(rawNotes')
    /\ abcBpm' = detectedBpm'
    /\ abcNotation' = Generate(detectedNotes', abcBpm')
    /\ recorders' = RecordersAtStop
    /\ scheduledFrames' = FramesAfterCancel
    /\ animationFrameId' = "null"
    /\ recorder' = None
    /\ pitchDetector' = FALSE
    /\ currentPitch' = FALSE
    /\ lastNoteEnd' = 0
    /\ segmenter' = SegmenterAtStop
    /\ status' = "complete"
    /\ UNCHANGED << error, quantizeEnabled, isPlaying, noteQuantizer,
                    subdivision >>

\* reset(): stopRecording(), stopPlayback(), then the fields are cleared.
Reset(finalNote) ==
    /\ IF status = "recording"
       THEN /\ bpm' = BpmAtStop(RawAfterFlush(finalNote))
            /\ detectedBpm' = PublishedAtStop(RawAfterFlush(finalNote))
            /\ abcBpm' = detectedBpm'
            /\ recorders' = RecordersAtStop
            /\ scheduledFrames' = FramesAfterCancel
            /\ animationFrameId' = "null"
            /\ recorder' = None
            /\ pitchDetector' = FALSE
            /\ lastNoteEnd' = 0
            /\ segmenter' = SegmenterAtStop
       ELSE /\ finalNote = None
            /\ UNCHANGED << bpm, detectedBpm, abcBpm, recorders,
                            scheduledFrames, animationFrameId, recorder,
                            pitchDetector, lastNoteEnd, segmenter >>
    /\ isPlaying' = FALSE
    /\ status' = "idle"
    /\ currentPitch' = FALSE
    /\ detectedNotes' = << >>
    /\ rawNotes' = << >>
    /\ abcNotation' = ""
    /\ error' = None
    /\ UNCHANGED << quantizeEnabled, noteQuantizer, subdivision >>

\* PianoRoll renders the tempo buttons, the quantize toggle and the play
\* button only under this condition.
ControlsShown == status = "complete" /\ Len(detectedNotes) > 0

\* The values the store's setBpm is called with: any request, or the
\* published BPM one step down or up.
SetBpmArguments ==
    BpmRequests
    \cup { b \in { detectedBpm - BpmStep, detectedBpm + BpmStep } :
             b \in LowestSteppedBpm .. HighestSteppedBpm }

SetBpm(b) ==
    /\ ControlsShown
    /\ detectedBpm' = b
    /\ bpm' = ClampBpm(b)
    /\ IF Len(rawNotes) > 0 /\ quantizeEnabled
       THEN /\ detectedNotes' = QuantizeAt(rawNotes, bpm', subdivision)
            /\ abcBpm' = detectedBpm'
            /\ abcNotation' = Generate(detectedNotes', abcBpm')
       ELSE UNCHANGED << detectedNotes, abcBpm, abcNotation >>
    /\ UNCHANGED << status, currentPitch, rawNotes, error, quantizeEnabled,
                    isPlaying, recorder, pitchDetector, noteQuantizer,
                    animationFrameId, recorders, scheduledFrames,
                    lastNoteEnd, segmenter, subdivision >>

\* A toggle that works on the melody on display.
ToggleQuantizeShown ==
    /\ ControlsShown
    /\ quantizeEnabled' = ~quantizeEnabled
    /\ IF Len(rawNotes) > 0
       THEN /\ detectedNotes' =
                   IF quantizeEnabled'
                   THEN QuantizeAt(detectedNotes, bpm, subdivision)
                   ELSE NormalizeNoteTimes(detectedNotes)
            /\ abcBpm' = detectedBpm
            /\ abcNotation' = Generate(detectedNotes', abcBpm')
       ELSE UNCHANGED << detectedNotes, abcBpm, abcNotation >>
    /\ UNCHANGED << status, currentPitch, rawNotes, error, detectedBpm,
                    isPlaying, recorder, pitchDetector, noteQuantizer,
                    animationFrameId, recorders, scheduledFrames,
                    lastNoteEnd, segmenter, bpm, subdivision >>

ToggleQuantize ==
    /\ ControlsShown
    /\ quantizeEnabled' = ~quantizeEnabled
    /\ IF Len(rawNotes) > 0
       THEN /\ detectedNotes' =
                   IF quantizeEnabled'
                   THEN QuantizeAt(rawNotes, bpm, subdivision)
                   ELSE NormalizeNoteTimes(rawNotes)
            /\ abcBpm' = detectedBpm
            /\ abcNotation' = Generate(detectedNotes', abcBpm')
       ELSE UNCHANGED << detectedNotes, abcBpm, abcNotation >>
    /\ UNCHANGED << status, currentPitch, rawNotes, error, detectedBpm,
                    isPlaying, recorder, pitchDetector, noteQuantizer,
                    animationFrameId, recorders, scheduledFrames,
                    lastNoteEnd, segmenter, bpm, subdivision >>

StartPlayback ==
    /\ ControlsShown
    /\ ~isPlaying
    /\ detectedNotes # << >>
    /\ isPlaying' = TRUE
    /\ UNCHANGED << status, currentPitch, detectedNotes, rawNotes,
                    abcNotation, error, detectedBpm, quantizeEnabled,
                    recorder, pitchDetector, noteQuantizer, animationFrameId,
                    recorders, scheduledFrames, lastNoteEnd, segmenter, bpm,
                    subdivision, abcBpm >>

\* stopPlayback(), from the stop button or at the end of the melody
StopPlayback ==
    /\ isPlaying
    /\ isPlaying' = FALSE
    /\ UNCHANGED << status, currentPitch, detectedNotes, rawNotes,
                    abcNotation, error, detectedBpm, quantizeEnabled,
                    recorder, pitchDetector, noteQuantizer, animationFrameId,
                    recorders, scheduledFrames, lastNoteEnd, segmenter, bpm,
                    subdivision, abcBpm >>

(***************************************************************************)
(* Specifications, one per component.                                      *)
(***************************************************************************)
SegInit == SegIdle /\ DetIdle /\ QuantIdle /\ notes = << >> /\ StoreIdle

SegNext ==
    \/ SegFrame /\ UNCHANGED << silenceStart, emitted, detVars, quantVars, storeVars >>
    \/ SegFlush /\ UNCHANGED << silenceStart, emitted, detVars, quantVars, storeVars >>
    \/ SegReset /\ UNCHANGED << silenceStart, emitted, detVars, quantVars, storeVars >>

SpecSeg == SegInit /\ [][SegNext]_vars

ClockNext ==
    \/ ClockFrame /\ UNCHANGED << emitted, detVars, quantVars, storeVars >>
    \/ ClockFlush /\ UNCHANGED << emitted, detVars, quantVars, storeVars >>
    \/ ClockReset /\ UNCHANGED << emitted, detVars, quantVars, storeVars >>

SpecSegClock == SegInit /\ [][ClockNext]_vars

DetInit == SegIdle /\ DetIdle /\ QuantIdle /\ notes = << >> /\ StoreIdle

DetNext ==
    \/ DetFrame /\ UNCHANGED << quantVars, storeVars >>
    \/ DetResetCall /\ UNCHANGED << quantVars, storeVars >>

SpecDet == DetInit /\ [][DetNext]_vars

\* detect on a block in which YIN finds A4 or nothing
DetFrameOnA4 ==
    \E r \in { None, Some(44000) }, c \in DetClarities :
        Detect(r, c) /\ UNCHANGED segVars

\* The segmenter through a recording session: the caller reads the clock for
\* every call, so no timestamp is earlier than the one before it, and
\* collects the events returned as processAudio and stopRecording do
\* (rawNotes = [...rawNotes, note]); after a reset the clock starts again.
\* Clock readings 0.09 s apart: two notes of 0.18 s fit.
SessionTimes == { 0, 9, 18, 27, 36 }

EmittedAfter ==
    IF segRet' # None THEN Append(emitted, Val(segRet')) ELSE emitted

SessionFrame ==
    \E f \in { None } \cup { Some(x) : x \in SegFrequencies },
       c \in SegClarities, t \in SessionTimes :
        /\ t >= segIn.timestamp
        /\ ProcessFrame([frequency |-> f, clarity |-> c, timestamp |-> t])
        /\ emitted' = EmittedAfter

SessionFlush ==
    \E t \in SessionTimes :
        /\ t >= segIn.timestamp
        /\ Flush(t)
        /\ emitted' = EmittedAfter

SessionReset == SegReset /\ emitted' = << >>

SessionNext ==
    \/ SessionFrame /\ UNCHANGED << silenceStart, detVars, quantVars, storeVars >>
    \/ SessionFlush /\ UNCHANGED << silenceStart, detVars, quantVars, storeVars >>
    \/ SessionReset /\ UNCHANGED << silenceStart, detVars, quantVars, storeVars >>

SpecSegSession == SegInit /\ [][SessionNext]_vars

\* A segmenter driven until it is reset, then a stabilizer hearing A4 or
\* nothing.
ComponentsInit == SegIdle /\ DetIdle /\ QuantIdle /\ notes = << >> /\ StoreIdle

ComponentsNext ==
    \/ /\ detOp = "new"
       /\ SegFrame
       /\ UNCHANGED << silenceStart, emitted, detVars, quantVars, storeVars >>
    \/ /\ detOp = "new"
       /\ SegFlush
       /\ UNCHANGED << silenceStart, emitted, detVars, quantVars, storeVars >>
    \/ /\ detOp = "new"
       /\ SegReset
       /\ UNCHANGED << silenceStart, emitted, detVars, quantVars, storeVars >>
    \/ /\ segOp = "reset"
       /\ DetFrameOnA4
       /\ UNCHANGED << quantVars, storeVars >>
    \/ /\ segOp = "reset"
       /\ DetResetCall
       /\ UNCHANGED << quantVars, storeVars >>

SpecComponents == ComponentsInit /\ [][ComponentsNext]_vars

QuantInit == SegIdle /\ DetIdle /\ QuantIdle /\ StoreIdle /\ notes \in AllMelodies

QuantFrame == << segVars, detVars, storeVars, unitsOut >>

QuantNext ==
    \/ (\E b \in BpmRequests : QSetBpm(b)) /\ UNCHANGED QuantFrame
    \/ (\E sub \in Subdivisions : QSetSubdivision(sub))
       /\ UNCHANGED QuantFrame
    \/ QDetectTempo /\ UNCHANGED QuantFrame
    \/ (\E autoDetectTempo \in BOOLEAN : QQuantize(autoDetectTempo))
       /\ UNCHANGED QuantFrame
    \/ QQuantizeAgain /\ UNCHANGED QuantFrame
    \/ QNormalize /\ UNCHANGED QuantFrame
    \/ (\E b \in BpmRequests : AbcSetBpm(b)) /\ UNCHANGED QuantFrame
    \/ AbcGenerate /\ UNCHANGED QuantFrame

SpecQuant == QuantInit /\ [][QuantNext]_vars

\* The tempo estimator alone, on note arrays of its own.
TempoInit ==
    /\ SegIdle
    /\ DetIdle
    /\ QuantIdle
    /\ StoreIdle
    /\ notes \in AllTempoMelodies

TempoNext ==
    \/ QDetectTempo /\ UNCHANGED QuantFrame

SpecTempo == TempoInit /\ [][TempoNext]_vars

\* The encoder on single notes of every pitch class, in the octaves 0 to
\* MaxOctave (a bound).
MaxOctave == 7
TokenDurations == { 20, 61 }

RECURSIVE TimesTwoTo(_, _)
TimesTwoTo(f, k) == IF k = 0 THEN f ELSE TimesTwoTo(2 * f, k - 1)

RECURSIVE HalvedTimes(_, _)
HalvedTimes(f, k) == IF k = 0 THEN f ELSE HalvedTimes((f + 1) \div 2, k - 1)

\* A DetectedNote of pitch class NOTE_NAMES[index + 1] in the given octave.
PitchNote(index, octave, duration) ==
    [note |-> NOTE_NAMES[index + 1], octave |-> octave,
     midiNumber |-> 12 * (octave + 1) + index,
     startTime |-> FInt(0), duration |-> FInt(duration),
     frequency |-> IF octave >= 4
                   THEN TimesTwoTo(MidiToFrequency(60 + index), octave - 4)
                   ELSE HalvedTimes(MidiToFrequency(60 + index), 4 - octave)]

TokenMelodies ==
    { << PitchNote(index, octave, d) >> :
        index \in 0 .. 11, octave \in 0 .. MaxOctave, d \in TokenDurations }

TokenInit ==
    /\ SegIdle
    /\ DetIdle
    /\ QuantIdle
    /\ StoreIdle
    /\ notes \in TokenMelodies

TokenNext ==
    \/ AbcGenerate /\ UNCHANGED QuantFrame

SpecToken == TokenInit /\ [][TokenNext]_vars

\* The duration conversions alone, on note arrays and BPMs of their own.
UnitsInit ==
    /\ SegIdle
    /\ DetIdle
    /\ StoreIdle
    /\ unitsOut = NoUnits
    /\ bpm = DefaultBpm
    /\ subdivision = DefaultSubdivision
    /\ abcBpm \in UnitBpms
    /\ qOp = "new"
    /\ qOut = << >>
    /\ qAgain = << >>
    /\ qTempo = 0
    /\ abcOut = ""
    /\ notes \in AllUnitMelodies

UnitsNext ==
    \/ ConvertDurations /\ UNCHANGED << segVars, detVars, storeVars >>
    \/ AbcGenerate /\ UNCHANGED QuantFrame

SpecUnits == UnitsInit /\ [][UnitsNext]_vars

StoreInit == SegIdle /\ DetIdle /\ QuantIdle /\ notes = << >> /\ StoreIdle

StoreFrame ==
    << segVars, detVars, notes, qOp, qOut, qAgain, qTempo, abcOut, unitsOut >>

StoreNext ==
    \/ (\E id \in RecorderIds : StartRecording(id)) /\ UNCHANGED StoreFrame
    \/ (\E id \in RecorderIds : StartResolved(id)) /\ UNCHANGED StoreFrame
    \/ (\E id \in RecorderIds : StartRejected(id)) /\ UNCHANGED StoreFrame
    \/ (\E wasStored \in BOOLEAN,
            frame \in { None } \cup { Some(n) : n \in NextNotes } :
           ProcessAudio(wasStored, frame))
       /\ UNCHANGED StoreFrame
    \/ (\E finalNote \in FinalNotes : StopRecording(finalNote))
       /\ UNCHANGED StoreFrame
    \/ (\E finalNote \in FinalNotes : Reset(finalNote)) /\ UNCHANGED StoreFrame
    \/ (\E b \in SetBpmArguments : SetBpm(b)) /\ UNCHANGED StoreFrame
    \/ ToggleQuantize /\ UNCHANGED StoreFrame
    \/ StartPlayback /\ UNCHANGED StoreFrame
    \/ StopPlayback /\ UNCHANGED StoreFrame

SpecStore == StoreInit /\ [][StoreNext]_vars

(***************************************************************************)
(* Properties of the segmenter.                                            *)
(***************************************************************************)

\* A step that is a call (processFrame or flush) made while a note is active.
CallOnActiveNote ==
    /\ currentMidi # None
    /\ currentNoteStart # None
    /\ segOp' \in { "frame", "flush" }

\* C1: every NoteEvent returned by processFrame or flush has a duration of at
\* least 0.18 s, and a call whose time is less than 0.18 s after the active
\* note's start returns no event: when that call finalizes the note (flush,
\* the 8th silent frame, a confirmed switch) the note is dropped.
C1_MinimumDuration ==
    /\ [](segRet # None => Val(segRet).duration >= MinStableDuration)
    /\ [][(CallOnActiveNote
            /\ segIn'.timestamp - Val(currentNoteStart) < MinStableDuration)
          => /\ segRet' = None
             /\ segOp' = "flush" => currentMidi' = None /\ currentNoteStart' = None
         ]_vars

\* C1 witness: a flush returned a note lasting exactly 0.18 s.
C1_Witness ==
    /\ segOp = "flush"
    /\ segRet # None
    /\ Val(segRet).duration = MinStableDuration

\* C10: a silent processFrame call on an active note that started at least
\* 0.18 s before the call's time returns nothing and leaves the note active
\* while it is one of the first 7 silent observations in a row, and returns
\* the note's event and leaves no active note when it is the 8th.
C10_EightSilentFramesEndNote ==
    [][(CallOnActiveNote
        /\ segOp' = "frame"
        /\ Silent(segIn')
        /\ segIn'.timestamp - Val(currentNoteStart) >= MinStableDuration)
      => IF silentRun' = 8
         THEN /\ segRet' # None
              /\ Val(segRet').startTime = Val(currentNoteStart)
              /\ currentMidi' = None
              /\ currentNoteStart' = None
         ELSE /\ silentRun' < 8
              /\ segRet' = None
              /\ currentMidi' = currentMidi
              /\ currentNoteStart' = currentNoteStart
     ]_vars

\* C10 witness: the 8th silent observation in a row returned an event and
\* the segmenter has no active note.
C10_Witness ==
    /\ segOp = "frame"
    /\ Silent(segIn)
    /\ silentRun = 8
    /\ segRet # None
    /\ currentMidi = None

\* C11: with timestamps in clock order, when 8 silent processFrame calls in
\* a row end an active note, the
\* returned event's duration is the time the note sounded before the silence
\* began: it is no longer than from the note's start to the first silent
\* call, so the silent calls add nothing to it.
C11_SilenceNotCounted ==
    (/\ segOp = "frame"
     /\ Silent(segIn)
     /\ silentRun = 8
     /\ segRet # None)
    => Val(segRet).duration <= Val(silenceStart) - Val(segRet).startTime

(***************************************************************************)
(* Properties of the pitch stabilizer.                                     *)
(***************************************************************************)

\* C4 as claimed: after any detect call, if at least 6 history entries are
\* null then the lock and the smoothed frequency are both null.
C4_ResetRegardlessOfLoudness ==
    (detOp = "detect" /\ NullCount(pitchHistory) >= 6)
    => (currentMidiNote = None /\ smoothedFrequency = None)

\* C4 amended: after a detect call whose frame is not loud (clarity <= 0.01)
\* or whose history holds no non-null entry, if at least 6 history entries
\* are null then the lock and the smoothed frequency are both null.
C4_ResetWhenQuietOrNoCandidate ==
    (/\ detOp = "detect"
     /\ NullCount(pitchHistory) >= 6
     /\ (detClarity <= LoudClarity \/ GetMedianPitch(pitchHistory) = None))
    => (currentMidiNote = None /\ smoothedFrequency = None)

\* C4 witness: a quiet frame brought the nulls to 6 of 12 while the other 6
\* entries still give a candidate, and the lock held before it is cleared.
C4_Witness ==
    /\ detOp = "detect"
    /\ detClarity <= LoudClarity
    /\ Len(pitchHistory) = HistorySize
    /\ NullCount(pitchHistory) = 6
    /\ GetMedianPitch(pitchHistory) # None
    /\ detPrevMidi # None
    /\ currentMidiNote = None
    /\ smoothedFrequency = None

\* A full history of in-range estimates that map to m or to m + d, fewer
\* than 8 of them to m + d.
WobbleHistory(m, d) ==
    /\ Len(pitchHistory) = HistorySize
    /\ \A i \in 1 .. HistorySize :
           /\ pitchHistory[i] # None
           /\ MidiOf(Val(pitchHistory[i])) \in { m, m + d }
    /\ CountConfirmedPitches(pitchHistory, m + d) < 8

\* C12: a detect call that finds the lock on m and leaves a full history of
\* in-range estimates, each mapping to m or to the one neighbour m + d (d = 1
\* or d = -1), fewer than 8 of them to the neighbour, keeps the lock on m.
\* Every call of a wobble of fewer than 8 frames, and every call after it,
\* is such a call, so the lock stays m throughout.
C12_WobbleKeepsLock ==
    \A d \in { -1, 1 } :
        (/\ detOp = "detect"
         /\ detPrevMidi # None
         /\ WobbleHistory(Val(detPrevMidi), d))
        => currentMidiNote = detPrevMidi

\* A loud call back on A4 after a run of 7 estimates of A#4: the history
\* holds 4 estimates of A4, the 7 of A#4 and the new one of A4.
C12_Witness ==
    /\ detOp = "detect"
    /\ detClarity > LoudClarity
    /\ detPrevMidi = Some(69)
    /\ currentMidiNote = Some(69)
    /\ WobbleHistory(69, 1)
    /\ \A i \in 1 .. HistorySize :
           MidiOf(Val(pitchHistory[i])) = IF i \in 5 .. 11 THEN 70 ELSE 69

(***************************************************************************)
(* Properties of the grid quantizer, the tempo estimator and the encoder.  *)
(***************************************************************************)

\* The notes of ns do not overlap and each lasts at least 0.18 s.
SeparateNotes(ns) ==
    /\ \A i \in 1 .. Len(ns) : FLeq(FInt(MinStableDuration), ns[i].duration)
    /\ \A i \in 1 .. Len(ns) - 1 :
           FLeq(FAdd(ns[i].startTime, ns[i].duration), ns[i + 1].startTime)

AfterQuantize == qOp \in { "quantize", "quantizeAuto" }

\* C2: when the input notes are sorted, do not overlap and each last at
\* least 0.18 s, the notes quantize returns satisfy
\* start[i] + duration[i] <= start[i+1] for all adjacent notes, also when two
\* notes snap to the same grid point.
C2_QuantizedNotesDoNotOverlap ==
    (AfterQuantize /\ SeparateNotes(notes))
    => \A i \in 1 .. Len(qOut) - 1 :
           FLeq(FAdd(qOut[i].startTime, qOut[i].duration),
                qOut[i + 1].startTime)

\* Two notes each 0.5 s long, the second starting at or after the end of
\* the first.
TwoHalfSecondNotes(ns) ==
    /\ Len(ns) = 2
    /\ ns[1].duration = FInt(50)
    /\ ns[2].duration = FInt(50)
    /\ FLeq(FAdd(ns[1].startTime, ns[1].duration), ns[2].startTime)

\* C3: two notes each 0.5 s long, the second starting at or after the end of
\* the first, quantized at 120 BPM with subdivision 8 each get a duration of
\* 2 grid units (0.5 s), and the encoder at 120 BPM gives both the
\* quarter-note marker "2".
C3_HalfSecondNotesAreQuarters ==
    (/\ qOp = "quantize"
     /\ bpm = 120
     /\ subdivision = 8
     /\ TwoHalfSecondNotes(notes))
    => \A i \in 1 .. 2 :
           /\ qOut[i].duration = FMul(FInt(2), GridSize(120, 8))
           /\ GetDurationSuffix(qOut[i].duration, 120) = "2"

\* The caller's note array and the settings of both objects stay as they are.
NothingWritten == UNCHANGED << notes, bpm, subdivision, abcBpm >>

\* C7 as claimed: a call of detectTempo, of quantize with or without the
\* auto-tempo flag, or of generate leaves the input notes, the quantizer's
\* BPM and subdivision and the encoder's BPM as they were.
C7_NoSideEffects ==
    [][qOp' \in { "detectTempo", "quantize", "quantizeAuto", "quantizeAgain",
                  "generate" }
       => NothingWritten]_vars

\* C7 amended: a call of detectTempo, of quantize without the auto-tempo
\* flag, or of generate leaves the input notes, the quantizer's BPM and
\* subdivision and the encoder's BPM as they were; a call of quantize with
\* the auto-tempo flag leaves the notes, the subdivision and the encoder's
\* BPM as they were and, when the notes are not empty, sets the quantizer's
\* BPM to what detectTempo returns for them.
C7_OnlyAutoTempoWritesBpm ==
    [][/\ qOp' \in { "detectTempo", "quantize", "quantizeAgain", "generate" }
          => NothingWritten
       /\ qOp' = "quantizeAuto"
          => /\ UNCHANGED << notes, subdivision, abcBpm >>
             /\ bpm' = IF Len(notes) = 0 THEN bpm ELSE DetectTempo(notes)
      ]_vars

\* C7 witness: quantize with the auto-tempo flag has left in the quantizer
\* a detected BPM that no setBpm call can have put there.
C7_Witness ==
    /\ qOp = "quantizeAuto"
    /\ Len(notes) = 2
    /\ bpm = DetectTempo(notes)
    /\ bpm \notin { ClampBpm(b) : b \in BpmRequests } \cup { DefaultBpm }

\* C8: quantize without the auto-tempo flag, applied to what quantize
\* returned and at the same BPM and subdivision, returns the same start time
\* and duration for every note.
C8_QuantizeIdempotent ==
    qOp = "quantizeAgain"
    => /\ Len(qAgain) = Len(qOut)
       /\ \A i \in 1 .. Len(qOut) :
              /\ qAgain[i].startTime = qOut[i].startTime
              /\ qAgain[i].duration = qOut[i].duration

\* C8 witness: quantize was applied to its own output, a two-note melody
\* whose first note the first pass moved onto the grid and cut short of its
\* rounded length to make room for the second.
C8_Witness ==
    /\ qOp = "quantizeAgain"
    /\ Len(qOut) = 2
    /\ qAgain = qOut
    /\ qOut[1].duration # notes[1].duration
    /\ FLess(qOut[1].duration,
             FMul(FInt(Max(1, FRound(FDiv(notes[1].duration,
                                          GridSize(bpm, subdivision))))),
                  GridSize(bpm, subdivision)))

\* C9: for a non-empty input sorted by start time, the notes quantize
\* returns and the notes normalizeNoteTimes returns are in non-decreasing
\* order of start time, and the first starts at exactly 0.
C9_SortedFromZero ==
    (qOp \in { "quantize", "quantizeAuto", "normalize" } /\ Len(notes) > 0)
    => /\ Len(qOut) = Len(notes)
       /\ qOut[1].startTime = FInt(0)
       /\ \A i \in 1 .. Len(qOut) - 1 :
              FLeq(qOut[i].startTime, qOut[i + 1].startTime)

\* C9 witness: normalizeNoteTimes returned two notes for a melody that does
\* not start at 0, the second later than the first.
C9_Witness ==
    /\ qOp = "normalize"
    /\ Len(notes) = 2
    /\ notes[1].startTime # FInt(0)
    /\ qOut[1].startTime = FInt(0)
    /\ FLess(qOut[1].startTime, qOut[2].startTime)

\* C17: for an empty note array generate returns the empty string and
\* quantize, with or without tempo detection, returns an empty array,
\* whatever BPM the encoder and the quantizer are set to.
C17_EmptyInEmptyOut ==
    notes = << >>
    => /\ (qOp = "generate" => abcOut = "")
       /\ (qOp \in { "quantize", "quantizeAuto" } => qOut = << >>)

\* generate has answered an empty array at a BPM other than the default.
C17_Witness ==
    /\ notes = << >>
    /\ qOp = "generate"
    /\ abcBpm # DefaultBpm
    /\ abcOut = ""

\* The eighth-note units of a duration at b beats per minute, by the limits
\* 1.5, 3 and 6 on duration / (60 / b / 2).
Bucket(duration, b) ==
    IF duration.n * b * 2 <= 9000 * duration.d THEN 1
    ELSE IF duration.n * b <= 9000 * duration.d THEN 2
    ELSE IF duration.n * b <= 18000 * duration.d THEN 4
    ELSE 8

RECURSIVE BucketSum(_, _)
BucketSum(ns, b) ==
    IF ns = << >> THEN 0
    ELSE Bucket(Head(ns).duration, b) + BucketSum(Tail(ns), b)

\* C19: for every duration and BPM the encoder's duration suffix, the
\* encoder's bar units and the playback estimate choose the same bucket, the
\* one of the limits 1.5, 3 and 6: suffix none, 2, 4, 8 for 1, 2, 4, 8 units,
\* and the estimate is the sum of the units times the eighth note's length.
C19_SameBuckets ==
    unitsOut.op = "convert"
    => /\ \A i \in 1 .. Len(notes) :
              LET units == Bucket(notes[i].duration, abcBpm) IN
              /\ unitsOut.eighths[i] = units
              /\ unitsOut.playbackEighths[i] = units
              /\ unitsOut.suffixes[i] =
                     IF units = 1 THEN "" ELSE ToString(units)
       /\ unitsOut.playbackDuration =
              Frac(BucketSum(notes, abcBpm) * 3000, abcBpm)

\* Two notes at 150 BPM, one exactly 1.5 eighths long and one just over 3:
\* one unit and four.
C19_Witness ==
    /\ unitsOut.op = "convert"
    /\ abcBpm = 150
    /\ Len(notes) = 2
    /\ notes[1].duration = FInt(30)
    /\ notes[2].duration = FInt(61)
    /\ unitsOut.eighths = << 1, 4 >>
    /\ unitsOut.playbackEighths = << 1, 4 >>
    /\ unitsOut.suffixes = << "", "4" >>

\* The bar lines among the tokens of a body.
BarsIn(tokens) == Len(SelectSeq(tokens, LAMBDA t : t = "|"))

\* C20: while generate writes the body, each note's token is followed at once
\* by a bar line exactly when the units counted in the measure, with the
\* note's own, reach 8; the count goes on from the remainder modulo 8, so it
\* is in 0..7 after every note, and the bar lines written number the total
\* units of the notes divided by 8, rounded down.
C20_BarEveryEightUnits ==
    (qOp = "generate" /\ notes # << >>)
    => LET loop(k) == BodyTokens(notes, k, abcBpm)
           tokens == loop(Len(notes)).abcNotes
       IN  /\ \A k \in 1 .. Len(notes) :
                  LET reached == loop(k - 1).currentMeasureDuration
                                 + Bucket(notes[k].duration, abcBpm)
                  IN  /\ loop(k).currentMeasureDuration \in 0 .. 7
                      /\ loop(k).currentMeasureDuration = reached % 8
                      /\ loop(k).abcNotes =
                             loop(k - 1).abcNotes
                             \o << NoteToAbc(notes[k], abcBpm) >>
                             \o (IF reached >= 8 THEN << "|" >> ELSE << >>)
           /\ BarsIn(tokens) = BucketSum(notes, abcBpm) \div 8
           /\ abcOut = GenerateHeader(abcBpm) \o Join(tokens)
                       \o (IF tokens[Len(tokens)] = "|" THEN "|" ELSE " |]")

\* generate on a note of 4 units and one of 8 at 150 BPM: one bar line after
\* the second note, and 4 units carried.
C20_Witness ==
    /\ qOp = "generate"
    /\ abcBpm = 150
    /\ Len(notes) = 2
    /\ notes[1].duration = FInt(61)
    /\ notes[2].duration = FInt(241)
    /\ BodyTokens(notes, 2, abcBpm).currentMeasureDuration = 4
    /\ BodyTokens(notes, 2, abcBpm).abcNotes = << "A4", "A8", "|" >>
    /\ abcOut = GenerateHeader(150) \o "A4 A8 |" \o "|"

\* The letter of a pitch class and whether it is one of the five sharps.
PitchLetter ==
    [ x \in { NOTE_NAMES[i] : i \in 1 .. 12 } |->
        CASE x \in { "C", "C#" } -> << "C", "c" >>
          [] x \in { "D", "D#" } -> << "D", "d" >>
          [] x = "E" -> << "E", "e" >>
          [] x \in { "F", "F#" } -> << "F", "f" >>
          [] x \in { "G", "G#" } -> << "G", "g" >>
          [] x \in { "A", "A#" } -> << "A", "a" >>
          [] x = "B" -> << "B", "b" >> ]

SharpClasses == { "C#", "D#", "F#", "G#", "A#" }

\* The token the notation asks for, without its duration suffix.
PitchToken(note) ==
    (IF note.note \in SharpClasses THEN "^" ELSE "")
    \o (IF note.octave >= 5 THEN PitchLetter[note.note][2]
        ELSE PitchLetter[note.note][1])
    \o (IF note.octave >= 5 THEN Repeat("'", note.octave - 5)
        ELSE Repeat(",", 4 - note.octave))

\* C21: the token of a note is its letter, after "^" for the five sharps:
\* uppercase and unmarked in octave 4, lowercase with octave - 5 apostrophes
\* from octave 5 up, uppercase with 4 - octave commas from octave 3 down.
C21_NoteTokens ==
    (qOp = "generate" /\ Len(notes) = 1)
    => abcOut = GenerateHeader(abcBpm) \o PitchToken(notes[1])
                \o (IF Bucket(notes[1].duration, abcBpm) = 1 THEN ""
                    ELSE ToString(Bucket(notes[1].duration, abcBpm)))
                \o " |]"

\* generate on F#6: "^f'".
C21_Witness ==
    /\ qOp = "generate"
    /\ Len(notes) = 1
    /\ notes[1].note = "F#"
    /\ notes[1].octave = 6
    /\ notes[1].duration = FInt(20)
    /\ abcOut = GenerateHeader(abcBpm) \o "^f' |]"

\* Every note handed to the tempo estimator lasts longer than 0 s.
PositiveDurations ==
    \A i \in 1 .. Len(notes) : notes[i].duration.n > 0

\* C13: for every note array whose durations are positive, detectTempo
\* returns a whole number of beats per minute from 60 to 180.
C13_DetectedTempoInRange ==
    (qOp = "detectTempo" /\ PositiveDurations) => qTempo \in 60 .. 180

\* Three notes of 0.12 s: 500 beats per minute before the octave correction,
\* 250 after it, returned as 180.
C13_Witness ==
    /\ qOp = "detectTempo"
    /\ Len(notes) = 3
    /\ \A i \in 1 .. 3 : notes[i].duration = FInt(12)
    /\ qTempo = 180

\* No note handed to the tempo estimator lasts more than 0.1 s and less
\* than 2 s.
NoPlausibleBeat ==
    \A i \in 1 .. Len(notes) :
        \/ notes[i].duration.n <= 10 * notes[i].duration.d
        \/ notes[i].duration.n >= 200 * notes[i].duration.d

\* C16: detectTempo returns 120 when it is given fewer than 2 notes, and
\* when no note's duration lies strictly between 0.1 s and 2 s.
C16_DefaultTempo ==
    (qOp = "detectTempo" /\ (Len(notes) < 2 \/ NoPlausibleBeat))
    => qTempo = 120

\* detectTempo on two notes of exactly 0.1 s and 2 s.
C16_Witness ==
    /\ qOp = "detectTempo"
    /\ Len(notes) = 2
    /\ notes[1].duration = FInt(10)
    /\ notes[2].duration = FInt(200)
    /\ qTempo = 120

(***************************************************************************)
(* Properties of the store.                                                *)
(***************************************************************************)

\* C5: whenever the store is in status 'complete' with a non-empty melody,
\* the notation text is what the encoder returns for the displayed melody at
\* the published BPM.
C5_NotationIsCurrent ==
    (status = "complete" /\ Len(detectedNotes) > 0)
    => abcNotation = Generate(detectedNotes, detectedBpm)

\* C6: the BPM the store publishes equals the BPM the grid quantizer uses,
\* and these and the BPM handed to the encoder lie in [40, 240].
C6_BpmClampedEverywhere ==
    /\ detectedBpm = bpm
    /\ detectedBpm \in MinManualBpm .. MaxManualBpm
    /\ abcBpm \in MinManualBpm .. MaxManualBpm

\* The melody on display in status 'complete', computed from the raw one.
ShownFromRaw ==
    status = "complete"
    => detectedNotes = IF quantizeEnabled
                       THEN QuantizeAt(rawNotes, bpm, subdivision)
                       ELSE NormalizeNoteTimes(rawNotes)

\* C14: in status 'complete' the melody on display is computed from the raw
\* melody alone: it is normalizeNoteTimes(rawNotes) with quantization off and
\* quantize(rawNotes) at the quantizer's BPM and subdivision with it on; and
\* no step taken while the controls are shown changes the raw melody.  The
\* display is then a function of the raw melody, the switch and the BPM, so
\* two toggles at one BPM bring the same display back.
C14_ShownDerivedFromRaw ==
    /\ []ShownFromRaw
    /\ [][(ControlsShown /\ ControlsShown') => rawNotes' = rawNotes]_vars

\* Two raw notes on display quantized, at a BPM set by hand, and the grid
\* has moved them.
C14_Witness ==
    /\ status = "complete"
    /\ quantizeEnabled
    /\ Len(rawNotes) = 2
    /\ bpm = 60
    /\ detectedNotes = QuantizeAt(rawNotes, bpm, subdivision)
    /\ detectedNotes # NormalizeNoteTimes(rawNotes)
    /\ detectedNotes # rawNotes

\* C15: in every recording session the segmenter is flushed exactly once, by
\* stopRecording, once no processAudio callback is left scheduled: no
\* segmenter is flushed twice or given a frame after its flush, a
\* segmenter's flush leaves no callback scheduled, and no start constructs a
\* new segmenter while the one in use has not been flushed.
C15_OneFlushPerSession ==
    /\ [](segmenter \in { "null", "live", "flushed" })
    /\ [][(segmenter = "live" /\ segmenter' = "flushed")
           => scheduledFrames' = 0]_vars
    /\ [][(\E id \in RecorderIds : StartResolved(id) /\ recorder # None)
           => segmenter # "live"]_vars

SegMidis == { MidiOf(x) : x \in SegFrequencies }

\* A processFrame step that starts a note on MIDI number n: the active MIDI
\* number becomes n from something else.
OpensNote(n) ==
    /\ segOp' = "frame"
    /\ currentMidi' = Some(n)
    /\ currentMidi # Some(n)

\* C22: a processFrame call starts a note on MIDI number n exactly when its
\* observation is not silent, maps to n, is at least 2 semitones from the
\* active note (when there is one) and is the 5th in a row that maps to n,
\* where a silent observation, another MIDI number and (on an active note) an
\* observation within a semitone of the note start the count again.  The new
\* note starts at the call's timestamp, and the call finalizes the note that
\* was active: it returns that note's event when the note lasted 0.18 s.
C22_FifthInARowOpens ==
    /\ [](runCount < 5)
    /\ [][(segOp' = "frame") =>
          \A n \in SegMidis :
            /\ OpensNote(n) <=>
                  /\ ~Silent(segIn')
                  /\ MidiOf(Val(segIn'.frequency)) = n
                  /\ currentMidi # None => Abs(n - Val(currentMidi)) >= 2
                  /\ runMidi = Some(n)
                  /\ runCount = 4
            /\ OpensNote(n) =>
                  /\ currentNoteStart' = Some(segIn'.timestamp)
                  /\ currentMidi # None =>
                       IF segIn'.timestamp - Val(currentNoteStart) >= 18
                       THEN /\ segRet' # None
                            /\ Val(segRet').startTime = Val(currentNoteStart)
                            /\ Val(segRet').duration =
                                 segIn'.timestamp - Val(currentNoteStart)
                       ELSE segRet' = None
      ]_vars

\* C22 witness: the 5th B4 observation in a row, on an active A4, started a
\* B4 at the call's timestamp and returned the A4.
C22_Witness ==
    /\ segOp = "frame"
    /\ currentMidi = Some(71)
    /\ currentNoteStart = Some(segIn.timestamp)
    /\ frequencyCount = 1
    /\ segRet # None
    /\ Val(segRet).midiNumber = 69
    /\ Val(segRet).startTime + Val(segRet).duration = segIn.timestamp


\* The number of entries of the stabilizer's history that map to MIDI
\* number n.
HistoryEntriesOn(history, n) ==
    Cardinality({ i \in 1 .. Len(history) :
                    history[i] # None /\ MidiOf(Val(history[i])) = n })

\* C23: a detect call changes the lock to a new MIDI number n only if the
\* history (at most 12 entries, the call's own included) holds at least 5
\* entries mapping to n when there was no lock, at least 8 when n is one
\* semitone from the previous lock, and at least 6 when n is 2 or more
\* semitones from it.
C23_LockChangeNeedsConfirmations ==
    /\ [](Len(pitchHistory) <= 12)
    /\ [][(detOp' = "detect"
           /\ currentMidiNote' # None
           /\ currentMidiNote' # currentMidiNote)
          => LET n == Val(currentMidiNote')
                 entries == HistoryEntriesOn(pitchHistory', n)
             IN  IF currentMidiNote = None THEN entries >= 5
                 ELSE IF Abs(n - Val(currentMidiNote)) = 1 THEN entries >= 8
                 ELSE entries >= 6
      ]_vars

\* C23 witness: the lock jumped from A4 to B4 on a history with exactly 6
\* entries on B4.
C23_Witness ==
    /\ detOp = "detect"
    /\ detPrevMidi = Some(69)
    /\ currentMidiNote = Some(71)
    /\ HistoryEntriesOn(pitchHistory, 71) = 6


\* A processFrame step on an active note whose observation is not silent
\* and maps to a MIDI number d semitones from the note's.
ObservationAtDistance(d) ==
    /\ segOp' = "frame"
    /\ currentMidi # None
    /\ ~Silent(segIn')
    /\ Abs(MidiOf(Val(segIn'.frequency)) - Val(currentMidi)) = d

\* C24: on an active note, a non-silent observation within 1 semitone of the
\* note returns no event, leaves the active MIDI number and the start time
\* as they are, sets the silence counter to 0 and clears the pending
\* candidate; the frequency sum and count take the observation in at
\* distance 0 and stay as they are at distance 1.
C24_AdjacentObservationKeepsNote ==
    [][(ObservationAtDistance(0) \/ ObservationAtDistance(1))
       => /\ segRet' = None
          /\ currentMidi' = currentMidi
          /\ currentNoteStart' = currentNoteStart
          /\ silenceCount' = 0
          /\ pendingMidi' = None
          /\ pendingCount' = 0
          /\ IF ObservationAtDistance(0)
             THEN /\ frequencySum' = frequencySum + Val(segIn'.frequency)
                  /\ frequencyCount' = frequencyCount + 1
             ELSE /\ frequencySum' = frequencySum
                  /\ frequencyCount' = frequencyCount
      ]_vars

\* C24 witness: an A#4 observation on an A4 that started earlier and has
\* taken in one frequency only.
C24_Witness ==
    /\ segOp = "frame"
    /\ currentMidi = Some(69)
    /\ ~Silent(segIn)
    /\ MidiOf(Val(segIn.frequency)) = 70
    /\ segIn.timestamp > Val(currentNoteStart)
    /\ frequencyCount = 1
    /\ segRet = None


\* A step that is a call returning a NoteEvent.
EmitsEvent ==
    /\ segOp' \in { "frame", "flush" }
    /\ segRet' # None

\* C25: every NoteEvent returned starts at the timestamp of the call that
\* opened its note and lasts from there to the timestamp of the call that
\* returns it, and that call is a flush, the 8th silent observation in a row,
\* or the observation that starts the next note.
C25_EventSpansOpenToFinalize ==
    [][EmitsEvent
       => /\ openedAt # None
          /\ Val(segRet').startTime = Val(openedAt)
          /\ Val(segRet').duration = segIn'.timestamp - Val(openedAt)
          /\ \/ segOp' = "flush"
             \/ segOp' = "frame" /\ Silent(segIn') /\ silentRun' = 8
             \/ /\ segOp' = "frame"
                /\ ~Silent(segIn')
                /\ currentMidi' # None
                /\ currentMidi' # currentMidi
                /\ openedAt' = Some(segIn'.timestamp)
      ]_vars

\* C25 witness: the 8th silent observation, at a later time than the note's
\* start, returned the note.
C25_Witness ==
    /\ segOp = "frame"
    /\ Silent(segIn)
    /\ silentRun = 8
    /\ segRet # None
    /\ Val(segRet).startTime > 0
    /\ Val(segRet).startTime + Val(segRet).duration = segIn.timestamp


\* The durations of ns, in whole centiseconds, that lie strictly between
\* 0.1 s and 2 s, in ascending order.
RECURSIVE InsertAscending(_, _)
InsertAscending(sorted, d) ==
    IF sorted = << >> THEN << d >>
    ELSE IF d < Head(sorted) THEN << d >> \o sorted
    ELSE << Head(sorted) >> \o InsertAscending(Tail(sorted), d)

RECURSIVE PlausibleAscending(_)
PlausibleAscending(ns) ==
    IF ns = << >> THEN << >>
    ELSE LET d == ns[Len(ns)].duration.n
             before == PlausibleAscending(SubSeq(ns, 1, Len(ns) - 1))
         IN  IF d > 10 /\ d < 200 THEN InsertAscending(before, d) ELSE before

RECURSIVE SumOf(_)
SumOf(members) ==
    IF members = << >> THEN 0 ELSE Head(members) + SumOf(Tail(members))

\* Clusters as the lists of their members: d joins the first cluster whose
\* mean is less than 0.15 s from it, and starts a cluster when there is none.
RECURSIVE GroupDurations(_, _)
GroupDurations(groups, sorted) ==
    IF sorted = << >> THEN groups
    ELSE LET d == Head(sorted)
             close(g) == Abs(SumOf(g) - d * Len(g)) < 15 * Len(g)
             near == { i \in 1 .. Len(groups) : close(groups[i]) }
         IN  IF near = {}
             THEN GroupDurations(Append(groups, << d >>), Tail(sorted))
             ELSE LET first == CHOOSE i \in near : \A j \in near : i <= j
                  IN  GroupDurations(
                          [groups EXCEPT ![first] = Append(@, d)],
                          Tail(sorted))

\* The members of the dominant cluster: the first of the largest.
DominantGroup(groups) ==
    groups[CHOOSE i \in 1 .. Len(groups) :
              /\ \A j \in 1 .. Len(groups) : Len(groups[j]) <= Len(groups[i])
              /\ \A j \in 1 .. i - 1 : Len(groups[j]) < Len(groups[i])]

\* clamp(round(c(60 / mean)), 60, 180) for the cluster of the members given,
\* where c halves a value above 180 and doubles a value below 60; the value
\* is the fraction num / den.
TempoOfGroup(members) ==
    LET sum == SumOf(members)
        count == Len(members)
        above == 6000 * count > 180 * sum
        below == 6000 * count < 60 * sum
        num == IF below THEN 12000 * count ELSE 6000 * count
        den == IF above THEN 2 * sum ELSE sum
        rounded == (2 * num + den) \div (2 * den)
    IN  IF rounded < 60 THEN 60 ELSE IF rounded > 180 THEN 180 ELSE rounded

\* C26: on 2 or more notes of which some last more than 0.1 s and less than
\* 2 s, detectTempo returns the tempo of the dominant cluster of those
\* durations: taken in ascending order, each joins the first cluster whose
\* running mean is less than 0.15 s from it or starts a new cluster; the
\* dominant cluster is the one with the most members, the one made first on
\* a tie; the tempo is 60 / mean, halved above 180, doubled below 60, rounded
\* and clamped to 60..180.
C26_TempoOfDominantCluster ==
    (qOp = "detectTempo" /\ Len(notes) >= 2
     /\ PlausibleAscending(notes) # << >>)
    => qTempo = TempoOfGroup(DominantGroup(
                    GroupDurations(<< >>, PlausibleAscending(notes))))

\* C26 witness: 0.2 s joins 0.12 s and 0.3 s joins their mean of 0.16 s;
\* the mean of the three gives 290 beats per minute, returned as 145.
C26_Witness ==
    /\ qOp = "detectTempo"
    /\ Len(notes) = 3
    /\ notes[1].duration = FInt(30)
    /\ notes[2].duration = FInt(12)
    /\ notes[3].duration = FInt(20)
    /\ qTempo = 145


\* C27: reset() leaves a component in the state its construction leaves it
\* in: the segmenter without an active note, start time or pending candidate
\* and with its sum and its three counters at 0, the stabilizer with an
\* empty history, no lock and no smoothed frequency.  What a component
\* returns and becomes is a function of these fields and the call's
\* argument, so it goes on as a new instance does.
C27_ResetIsFreshInstance ==
    /\ segOp = "reset" =>
          /\ currentMidi = None
          /\ currentNoteStart = None
          /\ frequencySum = 0
          /\ frequencyCount = 0
          /\ pendingMidi = None
          /\ pendingCount = 0
          /\ silenceCount = 0
    /\ detOp = "reset" =>
          /\ pitchHistory = << >>
          /\ currentMidiNote = None
          /\ smoothedFrequency = None

\* C27 witness: a segmenter that has been reset, and a stabilizer that has
\* been reset while it was locked on A4.
C27_Witness ==
    /\ segOp = "reset"
    /\ detOp = "reset"
    /\ detPrevMidi = Some(69)
    /\ pitchHistory = << >>
    /\ pendingMidi = None


\* A step in which the microphone is refused to a recorder that is starting.
StartFails == \E id \in RecorderIds : StartRejected(id)

\* C28: when the recorder's start fails, startRecording ends with status
\* "idle" and its failure as the error message, no processAudio callback is
\* scheduled, and no recorder is left starting or open by it: the one that
\* failed is closed.
C28_FailedStartLeavesIdle ==
    [][StartFails
       => /\ status' = "idle"
          /\ error' = Some(StartError)
          /\ scheduledFrames' = 0
          /\ animationFrameId' # "pending"
          /\ \A id \in RecorderIds :
                recorders[id] = "starting" /\ recorders'[id] # "starting"
                => recorders'[id] \in { "closed", "free" }
      ]_vars


\* C29: whatever the order of startRecording, stopRecording, reset and the
\* microphone's answers, at most one recorder is open and at most one
\* processAudio callback is scheduled at any time.
C29_OneRecorderOneLoop ==
    /\ Cardinality({ id \in RecorderIds : recorders[id] = "open" }) <= 1
    /\ scheduledFrames <= 1


\* C30: when no timestamp is earlier than the one before it, and flush's
\* endTime is not earlier than the last timestamp, the events a segmenter
\* returns come in non-decreasing order of start time and do not overlap:
\* each ends no later than the next one starts.
C30_EventsInOrderNoOverlap ==
    \A i \in 1 .. Len(emitted) - 1 :
        /\ emitted[i].startTime <= emitted[i + 1].startTime
        /\ emitted[i].startTime + emitted[i].duration
              <= emitted[i + 1].startTime

\* C30 witness: an A4 ended by the switch to B4, then the B4 returned by
\* flush, the second starting where the first ends.
C30_Witness ==
    /\ segOp = "flush"
    /\ Len(emitted) = 2
    /\ emitted[1].midiNumber = 69
    /\ emitted[2].midiNumber = 71
    /\ emitted[2].startTime = emitted[1].startTime + emitted[1].duration
    /\ segRet = Some(emitted[2])


\* The note array ns with its entries in the order p gives.
Reordered(ns, p) == [i \in 1 .. Len(ns) |-> ns[p[i]]]

\* C31: detectTempo returns the same BPM for a note array and for every
\* reordering of it.
C31_TempoIgnoresOrder ==
    qOp = "detectTempo"
    => \A p \in Permutations(1 .. Len(notes)) :
          DetectTempo(Reordered(notes, p)) = qTempo

\* C31 witness: a note of 0.5 s before one of 0.12 s, two clusters of one
\* member; the shorter duration wins as it does in the other order, and the
\* 500 beats per minute come back as 180.
C31_Witness ==
    /\ qOp = "detectTempo"
    /\ Len(notes) = 2
    /\ notes[1].duration = FInt(50)
    /\ notes[2].duration = FInt(12)
    /\ qTempo = 180


\* C32: the segmenter has an active MIDI number exactly when it has an
\* active start time, and an active note has taken in at least one
\* frequency; so every event returned carries the mean of the frequencies
\* its note has taken in, never the equal-tempered frequency computed for a
\* note without any.
C32_ActiveNoteHasFrequencies ==
    /\ []((currentMidi # None) <=> (currentNoteStart # None))
    /\ [](currentMidi # None => frequencyCount >= 1 /\ frequencySum > 0)
    /\ [][(segOp' \in { "frame", "flush" } /\ segRet' # None)
          => /\ frequencyCount >= 1
             /\ Val(segRet').frequency = frequencySum \div frequencyCount
      ]_vars

\* C32 witness: a note that took in 440 Hz and 445 Hz, returned with
\* 442.5 Hz.
C32_Witness ==
    /\ segOp \in { "frame", "flush" }
    /\ segRet # None
    /\ Val(segRet).frequency = 44250
    /\ Val(segRet).midiNumber = 69

=============================================================================
